---- MODULE Spec2Model ----
(***************************************************************************)
(* LP Sentinel: the three monitor programs of the repository               *)
(*   long  = src/long.py   (stable-only, weekly cadence)                   *)
(*   mid   = src/mid.py    (primary/fallback policies, cadence in days)    *)
(*   short = src/short.py  (active, daily cadence, price divergence)       *)
(*                                                                         *)
(* Units.  The programs compute with Python floats; the model computes     *)
(* with integers in fixed units, so that every comparison of the code is   *)
(* an exact integer comparison on the inputs the model draws:              *)
(*   tvlUsd, volumeUsd7d   millions of USD                                 *)
(*   apy, apyBase, apyReward   percent                                     *)
(*   netApy                hundredths of a percent                         *)
(*   il7d                  tenths of a percent                             *)
(*   score                 1/10000                                         *)
(*   time                  seconds                                         *)
(* A nullable value is None or Num(v).  A symbol is a sequence of          *)
(* one-character strings; the empty sequence stands for "" and for None.   *)
(***************************************************************************)
EXTENDS Integers, Sequences, FiniteSets, TLC

VARIABLES
    variant,         \* which program runs: "long", "mid" or "short"
    pc,              \* position of the process in main()
    FORCE_POST_NOW,  \* the module global of that name
    state,           \* main(): the dict loaded from / saved to the state file
    last_post,       \* main(): last_weekly_ts / last_post
    current,         \* main(): current_recs / current, the active set
    pools,           \* main(): the universe fetched in this cycle
    bad,             \* main(): the degraded pools found by this cycle's health check
    disk,            \* the state file on durable storage
    now,             \* the clock read by now_ts() / time.time()
    cycles,          \* number of cycles started
    PRICE_CACHE,     \* short.py: the module global of that name
    log,             \* what this cycle did so far (observable events)
    universe,        \* input of a function specified on its own: the universe
                     \* of the selector, <<prev, cur>> of the detector, the
                     \* symbol of the classifier
    result           \* output of that function

vars == <<variant, pc, FORCE_POST_NOW, state, last_post, current, pools, bad,
          disk, now, cycles, PRICE_CACHE, log, universe, result>>

(***************************************************************************)
(* Bounds of the model                                                     *)
(***************************************************************************)
\* number of pool identifiers in the universes the monitor loop fetches
MaxPools == 2
\* number of cycles a behaviour of the monitor loop runs
MaxCycles == 2
\* length of the universes handed to the selector on its own
MaxUniverse == 4

(***************************************************************************)
(* Values                                                                  *)
(***************************************************************************)
None == [k |-> "none"]
Num(n) == [k |-> "num", v |-> n]

Min(a, b) == IF a <= b THEN a ELSE b

\* num(x): x when it is a number, else 0.0
num(x) == IF x.k = "num" THEN x.v ELSE 0

(***************************************************************************)
(* Configuration                                                           *)
(***************************************************************************)
RECOMMEND_N == 5
CHAINS == {"Ethereum", "Arbitrum", "Optimism", "Base", "Solana", "BSC"}

AUTO_WEEKLY_POST == TRUE
AUTO_DAILY_POST == TRUE
WEEKLY_INTERVAL_DAYS_long == 7
WEEKLY_INTERVAL_DAYS_mid == 2
DAILY_INTERVAL_HOURS == 24
SCAN_INTERVAL_MIN_long == 20
SCAN_INTERVAL_MIN_mid == 20
SCAN_INTERVAL_MIN_short == 1

\* REWARD_HAIRCUT in percent: 0.25, 0.25, 0.20
REWARD_HAIRCUT_long == 25
REWARD_HAIRCUT_mid == 25
REWARD_HAIRCUT_short == 20

STABLE_FILTERS ==
    [min_tvl |-> 50, min_vol7d |-> 3, max_apy |-> 20, max_il7d |-> 5,
     allowed_types |-> {"stable-stable"}]
PRIMARY_FILTERS ==
    [min_tvl |-> 100, min_vol7d |-> 25, max_apy |-> 30, max_il7d |-> 10,
     allowed_types |-> {"stable-stable", "base-base"}]
FALLBACK_FILTERS ==
    [min_tvl |-> 75, min_vol7d |-> 15, max_apy |-> 35, max_il7d |-> 15,
     allowed_types |-> {"stable-stable", "base-base", "stable-base"}]
SHORT_FILTERS ==
    [min_tvl |-> 30, min_vol7d |-> 20, max_apy |-> 80, max_il7d |-> 30,
     allowed_types |-> {"stable-base", "base-base"}]

TANK_RULES_long ==
    [max_tvl_drop_pct |-> 20, max_vol7d_drop_pct |-> 50, max_il7d |-> 10,
     max_net_apy_drop_pct |-> 60, min_tvl_absolute |-> 20]
TANK_RULES_mid ==
    [max_tvl_drop_pct |-> 25, max_vol7d_drop_pct |-> 40, max_il7d |-> 20,
     max_net_apy_drop_pct |-> 50]
TANK_RULES_short ==
    [max_tvl_drop_pct |-> 20, max_vol7d_drop_pct |-> 30, max_il7d |-> 35,
     max_net_apy_drop_pct |-> 40]

(***************************************************************************)
(* Symbols and classification                                              *)
(***************************************************************************)
tUSDC == <<"U", "S", "D", "C">>
tUSDT == <<"U", "S", "D", "T">>
tDAI == <<"D", "A", "I">>
tLUSD == <<"L", "U", "S", "D">>
tFRAX == <<"F", "R", "A", "X">>
tCRVUSD == <<"C", "R", "V", "U", "S", "D">>
tPYUSD == <<"P", "Y", "U", "S", "D">>
tUSDE == <<"U", "S", "D", "E">>
tUSD0 == <<"U", "S", "D", "0">>
tUSDB == <<"U", "S", "D", "B">>
tGUSD == <<"G", "U", "S", "D">>
tTUSD == <<"T", "U", "S", "D">>
tSUSD == <<"S", "U", "S", "D">>
tETH == <<"E", "T", "H">>
tWETH == <<"W", "E", "T", "H">>
tBTC == <<"B", "T", "C">>
tWBTC == <<"W", "B", "T", "C">>
tSTETH == <<"S", "T", "E", "T", "H">>
tCBETH == <<"C", "B", "E", "T", "H">>
tSOL == <<"S", "O", "L">>
tBNB == <<"B", "N", "B">>

STABLE_HINTS_long ==
    <<tUSDC, tUSDT, tDAI, tLUSD, tFRAX, tCRVUSD, tPYUSD, tUSDE,
      tUSD0, tUSDB, tGUSD, tTUSD, tSUSD>>
STABLE_HINTS_mid ==
    <<tUSDC, tUSDT, tDAI, tLUSD, tFRAX, tCRVUSD, tPYUSD, tUSDE>>
STABLE_HINTS_short ==
    <<tUSDC, tUSDT, tDAI, tLUSD, tFRAX, tCRVUSD, tUSDE>>
BASE_HINTS ==
    <<tETH, tWETH, tBTC, tWBTC, tSTETH, tCBETH, tSOL, tBNB>>

\* str.upper() on one character
Upper(c) ==
    CASE c = "a" -> "A" [] c = "b" -> "B" [] c = "c" -> "C" [] c = "d" -> "D"
      [] c = "e" -> "E" [] c = "f" -> "F" [] c = "g" -> "G" [] c = "h" -> "H"
      [] c = "i" -> "I" [] c = "j" -> "J" [] c = "k" -> "K" [] c = "l" -> "L"
      [] c = "m" -> "M" [] c = "n" -> "N" [] c = "o" -> "O" [] c = "p" -> "P"
      [] c = "q" -> "Q" [] c = "r" -> "R" [] c = "s" -> "S" [] c = "t" -> "T"
      [] c = "u" -> "U" [] c = "v" -> "V" [] c = "w" -> "W" [] c = "x" -> "X"
      [] c = "y" -> "Y" [] c = "z" -> "Z" [] OTHER -> c

SEPARATORS == {"-", "/", " ", "_", "+"}

\* tokenize(symbol): upper-case, every separator replaced by "|"
tokenize(symbol) ==
    [i \in 1..Len(symbol) |->
        IF Upper(symbol[i]) \in SEPARATORS THEN "|" ELSE Upper(symbol[i])]

\* h in s, for strings
Contains(s, h) ==
    \E i \in 1..(Len(s) - Len(h) + 1) : SubSeq(s, i, i + Len(h) - 1) = h

\* sum(h in s for h in hints)
CountHints(s, hints) ==
    Cardinality({i \in 1..Len(hints) : Contains(s, hints[i])})

classify_long(symbol) ==
    LET s == tokenize(symbol)
        stable == CountHints(s, STABLE_HINTS_long)
    IN  IF stable >= 2 THEN "stable-stable" ELSE "other"

classify_mid(symbol) ==
    LET s == tokenize(symbol)
        stable == CountHints(s, STABLE_HINTS_mid)
        base == CountHints(s, BASE_HINTS)
    IN  IF stable >= 2 /\ base = 0 THEN "stable-stable"
        ELSE IF stable >= 1 /\ base >= 1 THEN "stable-base"
        ELSE IF base >= 2 /\ stable = 0 THEN "base-base"
        ELSE "exotic"

classify_short(symbol) ==
    LET s == tokenize(symbol)
        stable == CountHints(s, STABLE_HINTS_short)
        base == CountHints(s, BASE_HINTS)
    IN  IF stable >= 1 /\ base >= 1 THEN "stable-base"
        ELSE IF base >= 2 /\ stable = 0 THEN "base-base"
        ELSE "other"

(***************************************************************************)
(* Valuation and score                                                     *)
(***************************************************************************)
\* floor(1000 * log10(n)) for n = 1..100
Log10Table ==
    <<
      0, 301, 477, 602, 698, 778, 845, 903, 954, 1000,
      1041, 1079, 1113, 1146, 1176, 1204, 1230, 1255, 1278, 1301,
      1322, 1342, 1361, 1380, 1397, 1414, 1431, 1447, 1462, 1477,
      1491, 1505, 1518, 1531, 1544, 1556, 1568, 1579, 1591, 1602,
      1612, 1623, 1633, 1643, 1653, 1662, 1672, 1681, 1690, 1698,
      1707, 1716, 1724, 1732, 1740, 1748, 1755, 1763, 1770, 1778,
      1785, 1792, 1799, 1806, 1812, 1819, 1826, 1832, 1838, 1845,
      1851, 1857, 1863, 1869, 1875, 1880, 1886, 1892, 1897, 1903,
      1908, 1913, 1919, 1924, 1929, 1934, 1939, 1944, 1949, 1954,
      1959, 1963, 1968, 1973, 1977, 1982, 1986, 1991, 1995, 2000
    >>

\* 1000 * log10(n), n >= 1 (to three digits of n)
Log10Milli(n) ==
    IF n <= 100 THEN Log10Table[n]
    ELSE IF n <= 1000 THEN 1000 + Log10Table[n \div 10]
    ELSE 2000 + Log10Table[Min(n \div 100, 100)]

\* 1000 * math.log10(max(x, 1)) for an amount x given in millions of USD
Log10Usd(m) == IF m < 1 THEN 0 ELSE 6000 + Log10Milli(m)

net_apy_long(p) ==
    IF p.apyBase # None \/ p.apyReward # None
    THEN 100 * num(p.apyBase) + REWARD_HAIRCUT_long * num(p.apyReward)
    ELSE 100 * num(p.apy)

net_apy_mid(p) ==
    IF p.apyBase # None \/ p.apyReward # None
    THEN 100 * num(p.apyBase) + REWARD_HAIRCUT_mid * num(p.apyReward)
    ELSE 100 * num(p.apy)

net_apy_short(p) ==
    IF p.apyBase # None \/ p.apyReward # None
    THEN 100 * num(p.apyBase) + REWARD_HAIRCUT_short * num(p.apyReward)
    ELSE 100 * num(p.apy)

\* 0.5 * net + log10(tvl) + 0.7 * log10(vol7d)
score_stable(p) ==
    50 * net_apy_long(p) + 10 * Log10Usd(num(p.tvlUsd))
        + 7 * Log10Usd(num(p.volumeUsd7d))

\* 0.6 * net + log10(tvl) + log10(vol7d)
score(p) ==
    60 * net_apy_mid(p) + 10 * Log10Usd(num(p.tvlUsd))
        + 10 * Log10Usd(num(p.volumeUsd7d))

\* 0.7 * net + log10(tvl) + log10(vol7d)
score_short(p) ==
    70 * net_apy_short(p) + 10 * Log10Usd(num(p.tvlUsd))
        + 10 * Log10Usd(num(p.volumeUsd7d))

pool_snapshot_long(p, t) ==
    [pool |-> p.pool, chain |-> p.chain, project |-> p.project,
     symbol |-> p.symbol, tvlUsd |-> num(p.tvlUsd),
     volumeUsd7d |-> num(p.volumeUsd7d), il7d |-> p.il7d,
     netApy |-> net_apy_long(p), apy |-> num(p.apy), ts |-> t]

pool_snapshot_mid(p, t) ==
    [pool |-> p.pool, chain |-> p.chain, project |-> p.project,
     symbol |-> p.symbol, tvlUsd |-> num(p.tvlUsd),
     volumeUsd7d |-> num(p.volumeUsd7d), il7d |-> p.il7d,
     netApy |-> net_apy_mid(p), apy |-> num(p.apy), ts |-> t]

pool_snapshot_short(p, t) ==
    [pool |-> p.pool, chain |-> p.chain, project |-> p.project,
     symbol |-> p.symbol, tvlUsd |-> num(p.tvlUsd),
     volumeUsd7d |-> num(p.volumeUsd7d), il7d |-> p.il7d,
     netApy |-> net_apy_short(p), apy |-> num(p.apy), ts |-> t]

(***************************************************************************)
(* Selector                                                                *)
(***************************************************************************)
\* s[:n]
Take(s, n) == SubSeq(s, 1, Min(n, Len(s)))

\* The list left in the order of the universe.
SortNot(s, keys) == s

\* list.sort(key=..., reverse=True), with keys[i] the key of s[i]:
\* descending, stable
SortDesc(s, keys) ==
    LET before(j, i) ==
            keys[j] > keys[i] \/ (keys[j] = keys[i] /\ j < i)
        pos(i) == 1 + Cardinality({j \in 1..Len(s) : before(j, i)})
    IN  [r \in 1..Len(s) |-> s[CHOOSE i \in 1..Len(s) : pos(i) = r]]

\* filter_pool with "il7d is None" treated as a failed IL test.
filter_pool_needs_il(p, rules) ==
    /\ p.chain \in CHAINS
    /\ classify_long(p.symbol) \in rules.allowed_types
    /\ ~(num(p.tvlUsd) < rules.min_tvl)
    /\ ~(num(p.volumeUsd7d) < rules.min_vol7d)
    /\ ~(num(p.apy) > rules.max_apy)
    /\ p.il7d # None /\ ~(p.il7d.v > rules.max_il7d)

filter_pool_long(p, rules) ==
    /\ p.chain \in CHAINS
    /\ classify_long(p.symbol) \in rules.allowed_types
    /\ ~(num(p.tvlUsd) < rules.min_tvl)
    /\ ~(num(p.volumeUsd7d) < rules.min_vol7d)
    /\ ~(num(p.apy) > rules.max_apy)
    /\ ~(p.il7d # None /\ p.il7d.v > rules.max_il7d)

filter_pool_mid(p, rules) ==
    /\ p.chain \in CHAINS
    /\ ~(num(p.tvlUsd) < rules.min_tvl)
    /\ ~(num(p.volumeUsd7d) < rules.min_vol7d)
    /\ ~(num(p.apy) > rules.max_apy)
    /\ ~(p.il7d # None /\ p.il7d.v > rules.max_il7d)
    /\ classify_mid(p.symbol) \in rules.allowed_types

filter_pool_short(p) ==
    /\ p.chain \in CHAINS
    /\ classify_short(p.symbol) \in SHORT_FILTERS.allowed_types
    /\ ~(num(p.tvlUsd) < SHORT_FILTERS.min_tvl)
    /\ ~(num(p.volumeUsd7d) < SHORT_FILTERS.min_vol7d)
    /\ ~(num(p.apy) > SHORT_FILTERS.max_apy)
    /\ ~(p.il7d # None /\ p.il7d.v > SHORT_FILTERS.max_il7d)

pick_stable_pools(ps) ==
    LET cands == SelectSeq(ps, LAMBDA p : filter_pool_long(p, STABLE_FILTERS))
    IN  Take(SortDesc(cands, [i \in 1..Len(cands) |-> score_stable(cands[i])]),
             RECOMMEND_N)

\* pick_pools without its two slices: every primary and every fallback
\* candidate is returned.
pick_pools_unsliced(ps) ==
    LET passP == SelectSeq(ps, LAMBDA p : filter_pool_mid(p, PRIMARY_FILTERS))
        passF == SelectSeq(ps, LAMBDA p : filter_pool_mid(p, FALLBACK_FILTERS))
    IN  SortDesc(passP, [i \in 1..Len(passP) |-> score(passP[i])])
        \o SortDesc(passF, [i \in 1..Len(passF) |-> score(passF[i])])

pick_pools(ps) ==
    LET passP == SelectSeq(ps, LAMBDA p : filter_pool_mid(p, PRIMARY_FILTERS))
        passF == SelectSeq(ps, LAMBDA p : filter_pool_mid(p, FALLBACK_FILTERS))
        primary == SortDesc(passP, [i \in 1..Len(passP) |-> score(passP[i])])
        fallback == SortDesc(passF, [i \in 1..Len(passF) |-> score(passF[i])])
        picks ==
            IF Len(primary) < RECOMMEND_N
            THEN primary \o Take(fallback, RECOMMEND_N - Len(primary))
            ELSE primary
    IN  Take(picks, RECOMMEND_N)

pick_short_pools(ps) ==
    LET cands == SelectSeq(ps, LAMBDA p : filter_pool_short(p))
    IN  Take(SortDesc(cands, [i \in 1..Len(cands) |-> score_short(cands[i])]),
             RECOMMEND_N)

(***************************************************************************)
(* Degradation detector                                                    *)
(***************************************************************************)
\* A detector that counts any value not above the earlier one as a drop.
DropAny(a, b, pct) == a - b >= 0

\* A detector whose threshold is exclusive.
DropMoreThan(a, b, pct) == (a - b) * 100 > pct * a

\* (a - b) / a * 100 >= pct, for a > 0
DropAtLeast(a, b, pct) == (a - b) * 100 >= pct * a

\* The detector of the stable variant without its rule on the TVL floor.
tank_reasons_no_floor(prev, cur) ==
    (IF prev.tvlUsd > 0
           /\ DropAtLeast(prev.tvlUsd, cur.tvlUsd, TANK_RULES_long.max_tvl_drop_pct)
        THEN <<"TVL drop">> ELSE <<>>)
    \o (IF prev.volumeUsd7d > 0
           /\ DropAtLeast(prev.volumeUsd7d, cur.volumeUsd7d,
                          TANK_RULES_long.max_vol7d_drop_pct)
        THEN <<"Vol7d drop">> ELSE <<>>)
    \o (IF cur.il7d # None /\ cur.il7d.v > TANK_RULES_long.max_il7d
        THEN <<"il7d">> ELSE <<>>)
    \o (IF prev.netApy > 0
           /\ DropAtLeast(prev.netApy, cur.netApy,
                          TANK_RULES_long.max_net_apy_drop_pct)
        THEN <<"net APY drop">> ELSE <<>>)

tank_reasons_long(prev, cur) ==
    (IF cur.tvlUsd > 0 /\ cur.tvlUsd < TANK_RULES_long.min_tvl_absolute
        THEN <<"TVL low">> ELSE <<>>)
    \o (IF prev.tvlUsd > 0
           /\ DropAtLeast(prev.tvlUsd, cur.tvlUsd, TANK_RULES_long.max_tvl_drop_pct)
        THEN <<"TVL drop">> ELSE <<>>)
    \o (IF prev.volumeUsd7d > 0
           /\ DropAtLeast(prev.volumeUsd7d, cur.volumeUsd7d,
                          TANK_RULES_long.max_vol7d_drop_pct)
        THEN <<"Vol7d drop">> ELSE <<>>)
    \o (IF cur.il7d # None /\ cur.il7d.v > TANK_RULES_long.max_il7d
        THEN <<"il7d">> ELSE <<>>)
    \o (IF prev.netApy > 0
           /\ DropAtLeast(prev.netApy, cur.netApy,
                          TANK_RULES_long.max_net_apy_drop_pct)
        THEN <<"net APY drop">> ELSE <<>>)

tank_reasons_mid(prev, cur) ==
    (IF prev.tvlUsd > 0
           /\ DropAtLeast(prev.tvlUsd, cur.tvlUsd, TANK_RULES_mid.max_tvl_drop_pct)
        THEN <<"TVL drop">> ELSE <<>>)
    \o (IF prev.volumeUsd7d > 0
           /\ DropAtLeast(prev.volumeUsd7d, cur.volumeUsd7d,
                          TANK_RULES_mid.max_vol7d_drop_pct)
        THEN <<"Vol7d drop">> ELSE <<>>)
    \o (IF cur.il7d # None /\ cur.il7d.v > TANK_RULES_mid.max_il7d
        THEN <<"il7d">> ELSE <<>>)
    \o (IF prev.netApy > 0
           /\ DropAtLeast(prev.netApy, cur.netApy,
                          TANK_RULES_mid.max_net_apy_drop_pct)
        THEN <<"net APY drop">> ELSE <<>>)

tank_reasons_short(prev, cur) ==
    (IF prev.tvlUsd > 0
           /\ DropAtLeast(prev.tvlUsd, cur.tvlUsd, TANK_RULES_short.max_tvl_drop_pct)
        THEN <<"TVL drop">> ELSE <<>>)
    \o (IF prev.volumeUsd7d > 0
           /\ DropAtLeast(prev.volumeUsd7d, cur.volumeUsd7d,
                          TANK_RULES_short.max_vol7d_drop_pct)
        THEN <<"Vol7d drop">> ELSE <<>>)
    \o (IF cur.il7d # None /\ cur.il7d.v > TANK_RULES_short.max_il7d
        THEN <<"il7d">> ELSE <<>>)
    \o (IF prev.netApy > 0
           /\ DropAtLeast(prev.netApy, cur.netApy,
                          TANK_RULES_short.max_net_apy_drop_pct)
        THEN <<"net APY drop">> ELSE <<>>)

(***************************************************************************)
(* Inputs: pool records as the data source delivers them                   *)
(***************************************************************************)
Variants == {"long", "mid", "short"}

Dash == <<"-">>
Slash == <<"/">>
Underscore == <<"_">>

MkPool(id, chain, symbol, tvl, vol, apy, apyBase, apyReward, il7d) ==
    [pool |-> id, chain |-> chain, project |-> "proj", symbol |-> symbol,
     tvlUsd |-> tvl, volumeUsd7d |-> vol, apy |-> apy, apyBase |-> apyBase,
     apyReward |-> apyReward, il7d |-> il7d]

\* The pool records a universe handed to the selector is built from.
Profiles ==
    { \* stable-stable, deep: passes the stable and the primary policy
      [chain |-> "Ethereum", symbol |-> tUSDC \o Dash \o tUSDT,
       tvlUsd |-> Num(100), volumeUsd7d |-> Num(30), apy |-> Num(4),
       apyBase |-> Num(4), apyReward |-> None, il7d |-> None],
      \* stable-base with rewards and IL 1.2%: fallback and short policy only
      [chain |-> "Arbitrum", symbol |-> tWETH \o Slash \o tUSDC,
       tvlUsd |-> Num(100), volumeUsd7d |-> Num(30), apy |-> Num(18),
       apyBase |-> Num(10), apyReward |-> Num(8), il7d |-> Num(12)],
      \* stable-stable, lower case, TVL 85M: stable and fallback policy only
      [chain |-> "Base",
       symbol |-> <<"u", "s", "d", "c">> \o Underscore \o <<"d", "a", "i">>,
       tvlUsd |-> Num(85), volumeUsd7d |-> Num(20), apy |-> Num(3),
       apyBase |-> None, apyReward |-> None, il7d |-> Num(0)],
      \* base-base: primary, fallback and short policy
      [chain |-> "Ethereum", symbol |-> tWBTC \o Dash \o tWETH,
       tvlUsd |-> Num(200), volumeUsd7d |-> Num(40), apy |-> Num(2),
       apyBase |-> Num(2), apyReward |-> Num(0), il7d |-> None],
      \* stable-base, TVL 72M: short policy only
      [chain |-> "Solana", symbol |-> tSOL \o Dash \o tUSDC,
       tvlUsd |-> Num(72), volumeUsd7d |-> Num(30), apy |-> Num(12),
       apyBase |-> Num(12), apyReward |-> None, il7d |-> None],
      \* stable-stable with IL 2.0%: over the IL ceiling of every policy
      [chain |-> "Ethereum", symbol |-> tDAI \o Dash \o tUSDT,
       tvlUsd |-> Num(100), volumeUsd7d |-> Num(30), apy |-> Num(4),
       apyBase |-> Num(4), apyReward |-> None, il7d |-> Num(20)],
      \* chain not on the allow-list: passes no policy
      [chain |-> "Polygon", symbol |-> tUSDC \o Dash \o tUSDT,
       tvlUsd |-> Num(300), volumeUsd7d |-> Num(90), apy |-> Num(5),
       apyBase |-> Num(5), apyReward |-> None, il7d |-> None] }

PoolOfProfile(id, f) ==
    MkPool(id, f.chain, f.symbol, f.tvlUsd, f.volumeUsd7d, f.apy, f.apyBase,
           f.apyReward, f.il7d)

\* Universes of n pools with pairwise distinct identifiers.
SelectorUniverses(n) ==
    { [i \in 1..n |-> PoolOfProfile(i, f[i])] : f \in [1..n -> Profiles] }

(***************************************************************************)
(* The selector on its own: one call of the variant's pick function        *)
(***************************************************************************)
IdleMain ==
    /\ FORCE_POST_NOW = FALSE
    /\ state = [ts |-> None, recs |-> <<>>]
    /\ last_post = None
    /\ current = <<>>
    /\ pools = <<>>
    /\ bad = <<>>
    /\ disk = [k |-> "missing"]
    /\ now = 0
    /\ cycles = 0
    /\ PRICE_CACHE = <<>>
    /\ log = <<>>

InitPick ==
    /\ variant \in Variants
    /\ pc = "select"
    /\ \E n \in 0..MaxUniverse : universe \in SelectorUniverses(n)
    /\ result = <<>>
    /\ IdleMain

UnchangedMain ==
    UNCHANGED <<variant, FORCE_POST_NOW, state, last_post, current, pools,
                bad, disk, now, cycles, PRICE_CACHE, log>>

PickLong ==
    /\ pc = "select" /\ variant = "long"
    /\ result' = pick_stable_pools(universe)
    /\ pc' = "selected"
    /\ UNCHANGED universe /\ UnchangedMain

PickMid ==
    /\ pc = "select" /\ variant = "mid"
    /\ result' = pick_pools(universe)
    /\ pc' = "selected"
    /\ UNCHANGED universe /\ UnchangedMain

PickShort ==
    /\ pc = "select" /\ variant = "short"
    /\ result' = pick_short_pools(universe)
    /\ pc' = "selected"
    /\ UNCHANGED universe /\ UnchangedMain

NextPick == PickLong \/ PickMid \/ PickShort

SpecPick == InitPick /\ [][NextPick]_vars

(***************************************************************************)
(* The detector on its own: one call of the variant's tank_reasons         *)
(***************************************************************************)
\* Values of the compared fields (units of the header).  TVL: zero, under
\* and just over the floor of the stable variant, and drops of 25, 21, 20
\* and 19 percent from 100.  IL: absent, small, over every ceiling.
CheckTvls == {0, 10, 19, 22, 75, 79, 80, 81, 100}
CheckVols == {15, 30}
CheckIls == {None, Num(5), Num(40)}
CheckNets == {160, 400}

\* The snapshots handed to the detector: one pool at different times.
CheckSnapshots ==
    { [pool |-> 1, chain |-> "Ethereum", project |-> "proj",
       symbol |-> tUSDC \o Dash \o tUSDT, tvlUsd |-> tv, volumeUsd7d |-> vo,
       il7d |-> il, netApy |-> ne, apy |-> 4, ts |-> 0] :
        tv \in CheckTvls, vo \in CheckVols, il \in CheckIls, ne \in CheckNets }

InitCheck ==
    /\ variant \in Variants
    /\ pc = "check"
    /\ universe \in CheckSnapshots \X CheckSnapshots
    /\ result = <<>>
    /\ IdleMain

CheckLong ==
    /\ pc = "check" /\ variant = "long"
    /\ result' = tank_reasons_long(universe[1], universe[2])
    /\ pc' = "checked"
    /\ UNCHANGED universe /\ UnchangedMain

CheckMid ==
    /\ pc = "check" /\ variant = "mid"
    /\ result' = tank_reasons_mid(universe[1], universe[2])
    /\ pc' = "checked"
    /\ UNCHANGED universe /\ UnchangedMain

CheckShort ==
    /\ pc = "check" /\ variant = "short"
    /\ result' = tank_reasons_short(universe[1], universe[2])
    /\ pc' = "checked"
    /\ UNCHANGED universe /\ UnchangedMain

NextCheck == CheckLong \/ CheckMid \/ CheckShort

SpecCheck == InitCheck /\ [][NextCheck]_vars

(***************************************************************************)
(* Pool records with anomalous fields: filter_pool and tank_reasons on one *)
(* record                                                                  *)
(***************************************************************************)
\* A field holding a string that is not a number, such as "n/a".
Text == [k |-> "text"]

\* float(x) raises ValueError: x is a string that is not a number.
FloatRaises(x) == x.k = "text"

\* filter_pool raises: the checks before the IL check pass, il7d is not
\* None, and float(il7d) raises.
filter_raises_long(p, rules) ==
    /\ p.chain \in CHAINS
    /\ classify_long(p.symbol) \in rules.allowed_types
    /\ ~(num(p.tvlUsd) < rules.min_tvl)
    /\ ~(num(p.volumeUsd7d) < rules.min_vol7d)
    /\ ~(num(p.apy) > rules.max_apy)
    /\ p.il7d # None /\ FloatRaises(p.il7d)

filter_raises_mid(p, rules) ==
    /\ p.chain \in CHAINS
    /\ ~(num(p.tvlUsd) < rules.min_tvl)
    /\ ~(num(p.volumeUsd7d) < rules.min_vol7d)
    /\ ~(num(p.apy) > rules.max_apy)
    /\ p.il7d # None /\ FloatRaises(p.il7d)

filter_raises_short(p) ==
    /\ p.chain \in CHAINS
    /\ classify_short(p.symbol) \in SHORT_FILTERS.allowed_types
    /\ ~(num(p.tvlUsd) < SHORT_FILTERS.min_tvl)
    /\ ~(num(p.volumeUsd7d) < SHORT_FILTERS.min_vol7d)
    /\ ~(num(p.apy) > SHORT_FILTERS.max_apy)
    /\ p.il7d # None /\ FloatRaises(p.il7d)

\* tank_reasons raises on the snapshot of p: pool_snapshot copies il7d as it
\* is, and the IL rule calls float on it when it is not None.
tank_raises(p) == p.il7d # None /\ FloatRaises(p.il7d)

\* Records as the data source may deliver them: each numeric field missing
\* (None), a non-numeric string, or a number; the symbol well-formed or
\* empty.
AnomalyPools(v) ==
    { MkPool(1, "Ethereum", sy, tv, vo, ap, ab, None, il) :
        sy \in {IF v = "short" THEN tWETH \o Dash \o tUSDC
                              ELSE tUSDC \o Dash \o tUSDT, <<>>},
        tv \in {None, Text, Num(100)},
        vo \in {None, Text, Num(30)},
        ap \in {None, Text, Num(4)},
        ab \in {None, Text, Num(4)},
        il \in {None, Text, Num(1)} }

InitAnomaly ==
    /\ variant \in Variants
    /\ pc = "record"
    /\ universe \in AnomalyPools(variant)
    /\ result = <<>>
    /\ IdleMain

\* The selection filter on the record, and the health check of the record
\* as the current state of a tracked pool.
AnomalyLong ==
    /\ pc = "record" /\ variant = "long"
    /\ result' =
          [filter |-> IF filter_raises_long(universe, STABLE_FILTERS) THEN "raised"
                      ELSE IF filter_pool_long(universe, STABLE_FILTERS)
                           THEN "passed" ELSE "rejected",
           health |-> IF tank_raises(universe) THEN "raised" ELSE "checked"]
    /\ pc' = "handled"
    /\ UNCHANGED universe /\ UnchangedMain

AnomalyMid ==
    /\ pc = "record" /\ variant = "mid"
    /\ result' =
          [filter |-> IF filter_raises_mid(universe, PRIMARY_FILTERS)
                         \/ filter_raises_mid(universe, FALLBACK_FILTERS)
                      THEN "raised"
                      ELSE IF filter_pool_mid(universe, PRIMARY_FILTERS)
                              \/ filter_pool_mid(universe, FALLBACK_FILTERS)
                           THEN "passed" ELSE "rejected",
           health |-> IF tank_raises(universe) THEN "raised" ELSE "checked"]
    /\ pc' = "handled"
    /\ UNCHANGED universe /\ UnchangedMain

AnomalyShort ==
    /\ pc = "record" /\ variant = "short"
    /\ result' =
          [filter |-> IF filter_raises_short(universe) THEN "raised"
                      ELSE IF filter_pool_short(universe)
                           THEN "passed" ELSE "rejected",
           health |-> IF tank_raises(universe) THEN "raised" ELSE "checked"]
    /\ pc' = "handled"
    /\ UNCHANGED universe /\ UnchangedMain

NextAnomaly == AnomalyLong \/ AnomalyMid \/ AnomalyShort

SpecAnomaly == InitAnomaly /\ [][NextAnomaly]_vars

(***************************************************************************)
(* The universe fetch on its own: one call of safe_get_json                *)
(***************************************************************************)
\* What the data source does with the k-th request of a call: it answers
\* ("ok"), answers with an error status (raise_for_status raises), or does
\* not answer in time (requests.get raises).  One answer more than the
\* function may ask for.
FetchAnswers == [1..4 -> {"ok", "status", "timeout"}]

InitFetch ==
    /\ variant \in Variants
    /\ pc = "attempt"
    /\ universe \in FetchAnswers
    /\ result = [i |-> 0, attempts |-> 0, sleeps |-> 0, slept |-> 0]
    /\ IdleMain

\* without the i == 2 test: the loop runs until the source stops failing
Attempt_unbounded ==
    /\ pc = "attempt"
    /\ result' = [result EXCEPT !.attempts = @ + 1]
    /\ pc' = IF universe[result.attempts + 1] = "ok" THEN "returned"
             ELSE IF result.i = 3 THEN "raised"
             ELSE "backoff"
    /\ UNCHANGED universe /\ UnchangedMain

\* for i in range(3): try: requests.get; raise_for_status; return r.json()
\*                    except Exception: if i == 2: raise
Attempt ==
    /\ pc = "attempt"
    /\ result' = [result EXCEPT !.attempts = @ + 1]
    /\ pc' = IF universe[result.attempts + 1] = "ok" THEN "returned"
             ELSE IF result.i = 2 THEN "raised"
             ELSE "backoff"
    /\ UNCHANGED universe /\ UnchangedMain

\* time.sleep(2 * (i + 1)) in long.py, time.sleep(2) in mid.py and short.py;
\* then the next i
Backoff ==
    /\ pc = "backoff"
    /\ result' = [result EXCEPT
                    !.i = @ + 1,
                    !.sleeps = @ + 1,
                    !.slept = @ + (IF variant = "long" THEN 2 * (result.i + 1)
                                   ELSE 2)]
    /\ pc' = "attempt"
    /\ UNCHANGED universe /\ UnchangedMain

NextFetch == Attempt \/ Backoff

SpecFetch == InitFetch /\ [][NextFetch]_vars

(***************************************************************************)
(* The classifier on its own: one call of the variant's classify           *)
(***************************************************************************)
\* Symbols handed to the classifier: two tokens, stable or base, joined by
\* one of the separators or by a character that is not a separator.
ClassifyTokens == {tUSDC, tUSDT, tDAI, tFRAX, tWETH, tWBTC}
ClassifyJoints == SEPARATORS \cup {"."}

ClassifySymbols ==
    { a \o <<j>> \o b : a \in ClassifyTokens, b \in ClassifyTokens,
                        j \in ClassifyJoints }

InitClassify ==
    /\ variant \in Variants
    /\ pc = "classify"
    /\ universe \in ClassifySymbols
    /\ result = ""
    /\ IdleMain

ClassifyLong ==
    /\ pc = "classify" /\ variant = "long"
    /\ result' = classify_long(universe)
    /\ pc' = "classified"
    /\ UNCHANGED universe /\ UnchangedMain

ClassifyMid ==
    /\ pc = "classify" /\ variant = "mid"
    /\ result' = classify_mid(universe)
    /\ pc' = "classified"
    /\ UNCHANGED universe /\ UnchangedMain

ClassifyShort ==
    /\ pc = "classify" /\ variant = "short"
    /\ result' = classify_short(universe)
    /\ pc' = "classified"
    /\ UNCHANGED universe /\ UnchangedMain

NextClassify == ClassifyLong \/ ClassifyMid \/ ClassifyShort

SpecClassify == InitClassify /\ [][NextClassify]_vars

(***************************************************************************)
(* Startup on its own: main() from its first line to the entry of the loop *)
(***************************************************************************)
\* Values the module-level settings may be given: the recommendation count,
\* the allowed categories of the selection policy, the webhook address.
ConfigCounts == {-1, 0, 1, 2, RECOMMEND_N}
ConfigAllowed == {{}, {"stable-stable"}, {"stable-base", "base-base"}}
ConfigWebhooks == {"", "url"}

Configs ==
    [n : ConfigCounts, allowed_types : ConfigAllowed, webhook : ConfigWebhooks]

InitStartup ==
    /\ variant \in Variants
    /\ pc = "startup"
    /\ universe \in Configs
    /\ result = <<>>
    /\ IdleMain

\* long.py: main() raises when the webhook address is empty, and otherwise
\* loads the state and enters the loop
StartupLong ==
    /\ pc = "startup" /\ variant = "long"
    /\ pc' = IF universe.webhook = "" THEN "crashed" ELSE "loop"
    /\ UNCHANGED <<universe, result>> /\ UnchangedMain

\* mid.py: main() loads the state and enters the loop
StartupMid ==
    /\ pc = "startup" /\ variant = "mid"
    /\ pc' = "loop"
    /\ UNCHANGED <<universe, result>> /\ UnchangedMain

\* short.py: main() loads the state and enters the loop
StartupShort ==
    /\ pc = "startup" /\ variant = "short"
    /\ pc' = "loop"
    /\ UNCHANGED <<universe, result>> /\ UnchangedMain

NextStartup == StartupLong \/ StartupMid \/ StartupShort

SpecStartup == InitStartup /\ [][NextStartup]_vars

(***************************************************************************)
(* Cadence gate                                                            *)
(***************************************************************************)
\* The gate with a strict comparison: a post is not due when exactly the
\* interval has elapsed.
should_post_weekly_strict(last_ts, t) ==
    IF ~AUTO_WEEKLY_POST THEN FALSE
    ELSE IF last_ts = None THEN TRUE
    ELSE (t - last_ts.v) > WEEKLY_INTERVAL_DAYS_long * 86400

should_post_weekly_long(last_ts, t) ==
    IF ~AUTO_WEEKLY_POST THEN FALSE
    ELSE IF last_ts = None THEN TRUE
    ELSE (t - last_ts.v) >= WEEKLY_INTERVAL_DAYS_long * 86400

should_post_weekly_mid(last_ts, t) ==
    IF ~AUTO_WEEKLY_POST THEN FALSE
    ELSE IF last_ts = None THEN TRUE
    ELSE (t - last_ts.v) >= WEEKLY_INTERVAL_DAYS_mid * 86400

should_post_daily(last_ts, t) ==
    IF ~AUTO_DAILY_POST THEN FALSE
    ELSE IF last_ts = None THEN TRUE
    ELSE (t - last_ts.v) >= DAILY_INTERVAL_HOURS * 3600

(***************************************************************************)
(* short.py: price divergence with the cached oracle                       *)
(***************************************************************************)
PRICE_DIVERGENCE_24H_WARN == 8
PRICE_DIVERGENCE_24H_EXIT == 12
\* 15 * 60 seconds
PRICE_CACHE_TTL == 900

\* COINGECKO_IDS.get(token); "" stands for None
CoingeckoId(tok) ==
    CASE tok = tETH -> "ethereum" [] tok = tWETH -> "ethereum"
      [] tok = tBTC -> "bitcoin" [] tok = tWBTC -> "bitcoin"
      [] tok = tSOL -> "solana" [] tok = tBNB -> "binancecoin"
      [] tok = tUSDC -> "usd-coin" [] tok = tUSDT -> "tether"
      [] tok = tDAI -> "dai" [] tok = tFRAX -> "frax"
      [] tok = tCRVUSD -> "crvusd" [] tok = tUSDE -> "ethena-usde"
      [] OTHER -> ""

\* str.split(sep) for a one-character separator
RECURSIVE Split(_, _)
Split(s, sep) ==
    IF \A i \in 1..Len(s) : s[i] # sep THEN <<s>>
    ELSE LET i == CHOOSE k \in 1..Len(s) :
                      s[k] = sep /\ \A m \in 1..(k - 1) : s[m] # sep
         IN  <<SubSeq(s, 1, i - 1)>> \o Split(SubSeq(s, i + 1, Len(s)), sep)

\* extract_tokens(symbol): the two tokens, or <<>> for (None, None)
extract_tokens(symbol) ==
    IF symbol = <<>> THEN <<>>
    ELSE LET s == [i \in 1..Len(symbol) |->
                      IF symbol[i] = "/" THEN "-" ELSE Upper(symbol[i])]
             parts == Split(s, "-")
         IN  IF Len(parts) # 2 THEN <<>> ELSE parts

NoData == [ok |-> FALSE, a |-> 0, b |-> 0]

\* What the oracle may answer to one request: HTTP 429, any other failure,
\* or the two 24h changes in percent.
OracleResponses ==
    { [status |-> "429", a |-> 0, b |-> 0],
      [status |-> "error", a |-> 0, b |-> 0],
      [status |-> "ok", a |-> 0, b |-> 0],
      [status |-> "ok", a |-> 1, b |-> -7],
      [status |-> "ok", a |-> 5, b |-> -7] }

\* fetch_24h_changes(token_a, token_b) at time t, with `resp` the answer of
\* the oracle if a request is made: the data returned and the cache after it.
fetch_24h_changes(token_a, token_b, cache, t, resp) ==
    LET ida == CoingeckoId(token_a)
        idb == CoingeckoId(token_b)
        key == {ida, idb}
    IN  IF ida = "" \/ idb = "" THEN [data |-> NoData, cache |-> cache]
        ELSE IF key \in DOMAIN cache /\ t - cache[key].ts < PRICE_CACHE_TTL
        THEN [data |-> cache[key].data, cache |-> cache]
        ELSE IF resp.status # "ok" THEN [data |-> NoData, cache |-> cache]
        ELSE LET res == [ok |-> TRUE, a |-> resp.a, b |-> resp.b]
             IN  [data |-> res,
                  cache |-> [k \in DOMAIN cache \cup {key} |->
                                IF k = key THEN [ts |-> t, data |-> res]
                                ELSE cache[k]]]

Abs(x) == IF x < 0 THEN -x ELSE x

\* price_il_risk(symbol): the signal ("exit", "warn" or "none") and the cache
price_il_risk(symbol, cache, t, resp) ==
    LET toks == extract_tokens(symbol)
    IN  IF toks = <<>> \/ toks[1] = <<>> \/ toks[2] = <<>>
        THEN [signal |-> "none", cache |-> cache]
        ELSE LET got == fetch_24h_changes(toks[1], toks[2], cache, t, resp)
                 div == Abs(got.data.a - got.data.b)
             IN  [signal |->
                      IF ~got.data.ok THEN "none"
                      ELSE IF div >= PRICE_DIVERGENCE_24H_EXIT THEN "exit"
                      ELSE IF div >= PRICE_DIVERGENCE_24H_WARN THEN "warn"
                      ELSE "none",
                  cache |-> got.cache]

\* price_il_risk(symbol) gets as far as the cache or the oracle: the symbol
\* has two tokens and both are in COINGECKO_IDS.  For any other symbol no
\* request is made.
Priced(symbol) ==
    LET toks == extract_tokens(symbol)
    IN  /\ toks # <<>>
        /\ CoingeckoId(toks[1]) # ""
        /\ CoingeckoId(toks[2]) # ""

(***************************************************************************)
(* The monitor loop: inputs                                                *)
(***************************************************************************)
\* The symbol of pool i in the universes the loop fetches; each variant
\* watches pools of the categories its policy allows.
MainSymbols(v) ==
    CASE v = "long" -> <<tUSDC \o Dash \o tUSDT, tDAI \o Dash \o tUSDC,
                         tUSDT \o Dash \o tDAI>>
      [] v = "mid" -> <<tUSDC \o Dash \o tUSDT, tWBTC \o Dash \o tWETH,
                        tDAI \o Dash \o tUSDC>>
      [] v = "short" -> <<tWETH \o Dash \o tUSDC, tSTETH \o Dash \o tWETH,
                          tCBETH \o Dash \o tWETH>>

MainSymbol(v, i) == MainSymbols(v)[((i - 1) % Len(MainSymbols(v))) + 1]

\* TVL values (millions of USD) a pool takes from fetch to fetch
MainTvls == {10, 19, 72, 85, 100}

MainPool(v, i, tvl) ==
    MkPool(i, "Ethereum", MainSymbol(v, i), Num(tvl), Num(30), Num(4),
           Num(4), None, None)

\* A fetch that lists more pools passing the filters than the program
\* recommends.
FullUniverse(v) == [i \in 1..(RECOMMEND_N + 1) |-> MainPool(v, i, 100)]

\* What fetch_pools() may return: every pool identifier is absent (-1) or
\* listed with one of the TVL values; or the full universe.
MainUniverses(v) ==
    { SelectSeq([i \in 1..MaxPools |-> MainPool(v, i, tv[i])],
                LAMBDA p : num(p.tvlUsd) >= 0) :
        tv \in [1..MaxPools -> MainTvls \cup {-1}] }
    \cup {FullUniverse(v)}

\* idx = build_pool_index(pools): pid in idx, and idx[pid]
InIdx(ps, pid) == \E i \in 1..Len(ps) : ps[i].pool = pid
Idx(ps, pid) ==
    ps[CHOOSE i \in 1..Len(ps) :
          ps[i].pool = pid /\ \A j \in (i + 1)..Len(ps) : ps[j].pool # pid]

\* State files found at startup: none, an unreadable one, and one written
\* by an earlier run; for the stable variant also one whose baseline an
\* earlier run refreshed, in healthy cycles, down to just over the TVL floor.
InitialDisks(v) ==
    { [k |-> "missing"],
      [k |-> "malformed"],
      [k |-> "ok", ts |-> Num(0),
       recs |-> <<[pool |-> 1, chain |-> "Ethereum", project |-> "proj",
                   symbol |-> MainSymbol(v, 1), tvlUsd |-> 100,
                   volumeUsd7d |-> 30, il7d |-> None, netApy |-> 400,
                   apy |-> 4, ts |-> 0]>>] }
    \cup (IF v = "long"
          THEN { [k |-> "ok", ts |-> Num(0),
                  recs |-> <<[pool |-> 1, chain |-> "Ethereum",
                              project |-> "proj", symbol |-> MainSymbol(v, 1),
                              tvlUsd |-> 22, volumeUsd7d |-> 30,
                              il7d |-> None, netApy |-> 400, apy |-> 4,
                              ts |-> 0]>>] }
          ELSE {})

SCAN_INTERVAL_SEC(v) ==
    CASE v = "long" -> SCAN_INTERVAL_MIN_long * 60
      [] v = "mid" -> SCAN_INTERVAL_MIN_mid * 60
      [] v = "short" -> SCAN_INTERVAL_MIN_short * 60

\* How long the process may be away between two cycles: the scan interval,
\* or longer (time.sleep returns no earlier than asked).
SleepChoices(v) ==
    CASE v = "long" -> {SCAN_INTERVAL_SEC(v), WEEKLY_INTERVAL_DAYS_long * 86400}
      [] v = "mid" -> {SCAN_INTERVAL_SEC(v), WEEKLY_INTERVAL_DAYS_mid * 86400}
      [] v = "short" -> {SCAN_INTERVAL_SEC(v), PRICE_CACHE_TTL,
                         DAILY_INTERVAL_HOURS * 3600}

(***************************************************************************)
(* The oracle cache on its own: calls of fetch_24h_changes for one pair    *)
(***************************************************************************)
\* Calls made for the pair, and scan intervals waited, in one behaviour.
MaxQueries == 4
MaxTicks == 3

\* fetch_24h_changes gets past its cache to requests.get: both tokens are
\* mapped and the pair has no entry younger than PRICE_CACHE_TTL.
RequestMade(token_a, token_b, cache, t) ==
    LET ida == CoingeckoId(token_a)
        idb == CoingeckoId(token_b)
        key == {ida, idb}
    IN  /\ ida # "" /\ idb # ""
        /\ ~(key \in DOMAIN cache /\ t - cache[key].ts < PRICE_CACHE_TTL)

\* universe: the pair; result: the time, the cache, the times of the
\* requests sent to the oracle, the number of calls and of waits so far.
InitOracle ==
    /\ variant = "short"
    /\ pc = "oracle"
    /\ universe \in {<<tWETH, tUSDC>>, <<tUSDC, tWETH>>}
    /\ result = [t |-> 0, cache |-> <<>>, requests |-> <<>>, calls |-> 0,
                 ticks |-> 0]
    /\ IdleMain

\* One call fetch_24h_changes(a, b), made for a tracked pool of the pair in
\* either order of its tokens.
OracleQuery ==
    /\ pc = "oracle"
    /\ result.calls < MaxQueries
    /\ \E resp \in OracleResponses, swap \in BOOLEAN :
          LET a == IF swap THEN universe[2] ELSE universe[1]
              b == IF swap THEN universe[1] ELSE universe[2]
              got == fetch_24h_changes(a, b, result.cache, result.t, resp)
          IN  result' = [result EXCEPT
                            !.cache = got.cache,
                            !.calls = @ + 1,
                            !.requests =
                                IF RequestMade(a, b, result.cache, result.t)
                                THEN Append(@, result.t) ELSE @]
    /\ UNCHANGED <<pc, universe>> /\ UnchangedMain

\* The loop sleeps between two cycles.
OracleTick ==
    /\ pc = "oracle"
    /\ result.ticks < MaxTicks
    /\ \E d \in SleepChoices("short") :
          result' = [result EXCEPT !.t = @ + d, !.ticks = @ + 1]
    /\ UNCHANGED <<pc, universe>> /\ UnchangedMain

NextOracle == OracleQuery \/ OracleTick

SpecOracle == InitOracle /\ [][NextOracle]_vars

(***************************************************************************)
(* The monitor loop: main()                                                *)
(***************************************************************************)
Init ==
    /\ variant \in Variants
    /\ pc = "load"
    /\ FORCE_POST_NOW \in BOOLEAN
    /\ state = [ts |-> None, recs |-> <<>>]
    /\ last_post = None
    /\ current = <<>>
    /\ pools = <<>>
    /\ bad = <<>>
    /\ disk \in InitialDisks(variant)
    /\ now = 0
    /\ cycles = 0
    /\ PRICE_CACHE = <<>>
    /\ log = <<>>
    /\ universe = <<>>
    /\ result = <<>>

\* load_state(): {} when there is no file, else the dict of the file
load_state(d) ==
    IF d.k = "missing" THEN [ts |-> None, recs |-> <<>>]
    ELSE [ts |-> d.ts, recs |-> d.recs]

\* open() / json.load() raise on an unreadable or malformed file
LoadRaises(d) == d.k = "malformed"

\* save_state(state): the file after os.replace
save_state(st) == [k |-> "ok", ts |-> st.ts, recs |-> st.recs]

(***************************************************************************)
(* Persistence on its own: one call of save_state, and a process kill      *)
(***************************************************************************)
\* Writes json.dump makes to the open file for one state.
SaveChunks == 2

\* The states handed to save_state.
SavedStates ==
    { [ts |-> ts, recs |-> recs] :
        ts \in {None, Num(0), Num(60)},
        recs \in {<<>>} \cup
                 { d.recs : d \in {e \in InitialDisks("long") : e.k = "ok"} } }

\* universe: the state to save; result: the state file and the temporary
\* file next to it.  A file is missing, complete ([k |-> "ok", ...]), or
\* torn after n writes.
InitSave ==
    /\ variant \in {"long", "mid"}
    /\ pc = "open"
    /\ universe \in SavedStates
    /\ \E f \in {d \in InitialDisks(variant) : d.k # "malformed"},
          tmp \in {[k |-> "missing"], [k |-> "torn", n |-> 0]} :
          result = [file |-> f, tmp |-> tmp, old |-> f]
    /\ IdleMain

\* save_state writing the state file itself
SaveOpen_in_place ==
    /\ pc = "open"
    /\ result' = [result EXCEPT !.file = [k |-> "torn", n |-> 0]]
    /\ pc' = "dump"
    /\ UNCHANGED universe /\ UnchangedMain

\* tmp = STATE_PATH + ".tmp"; open(tmp, "w") creates or truncates it
SaveOpen ==
    /\ pc = "open"
    /\ result' = [result EXCEPT !.tmp = [k |-> "torn", n |-> 0]]
    /\ pc' = "dump"
    /\ UNCHANGED universe /\ UnchangedMain

\* json.dump(state, f, indent=2), one write at a time; the file is closed,
\* and complete, after the last
SaveDump ==
    /\ pc = "dump"
    /\ result.tmp.k = "torn"
    /\ IF result.tmp.n + 1 < SaveChunks
       THEN /\ result' = [result EXCEPT !.tmp.n = @ + 1]
            /\ pc' = "dump"
       ELSE /\ result' = [result EXCEPT !.tmp = save_state(universe)]
            /\ pc' = "replace"
    /\ UNCHANGED universe /\ UnchangedMain

\* os.replace(tmp, STATE_PATH)
SaveReplace ==
    /\ pc = "replace"
    /\ result' = [result EXCEPT !.file = result.tmp,
                                !.tmp = [k |-> "missing"]]
    /\ pc' = "saved"
    /\ UNCHANGED universe /\ UnchangedMain

\* The process is killed between two steps of save_state.
SaveKill ==
    /\ pc \in {"open", "dump", "replace"}
    /\ pc' = "killed"
    /\ UNCHANGED <<universe, result>> /\ UnchangedMain

NextSave == SaveOpen \/ SaveDump \/ SaveReplace \/ SaveKill

SpecSave == InitSave /\ [][NextSave]_vars

\* main() before the loop: load the state file.  The call is outside the
\* try block, so an exception ends the process.
Load ==
    /\ pc = "load"
    /\ IF LoadRaises(disk)
       THEN /\ pc' = "crashed"
            /\ UNCHANGED <<state, last_post, current>>
       ELSE /\ state' = load_state(disk)
            /\ last_post' = state'.ts
            /\ current' = state'.recs
            /\ pc' = "fetch"
    /\ UNCHANGED <<variant, FORCE_POST_NOW, pools, bad, disk, now, cycles,
                   PRICE_CACHE, log, universe, result>>

\* Top of the loop body: pools = fetch_pools(); idx = build_pool_index(pools)
Fetch ==
    /\ pc = "fetch"
    /\ cycles' = cycles + 1
    /\ \/ /\ pools' \in MainUniverses(variant)
          /\ log' = <<"fetched">>
          /\ pc' = "post"
       \/ /\ pools' = pools
          /\ log' = <<"fetch failed">>
          /\ pc' = "except"
    /\ UNCHANGED <<variant, FORCE_POST_NOW, state, last_post, current, bad,
                   disk, now, PRICE_CACHE, universe, result>>

Snapshots_long(picks, t) ==
    [i \in 1..Len(picks) |-> pool_snapshot_long(picks[i], t)]
Snapshots_mid(picks, t) ==
    [i \in 1..Len(picks) |-> pool_snapshot_mid(picks[i], t)]
Snapshots_short(picks, t) ==
    [i \in 1..Len(picks) |-> pool_snapshot_short(picks[i], t)]

\* The long.py block recording the post whether or not a pool matched.
ScheduledPost_stamps_empty ==
    /\ pc = "post" /\ variant = "long"
    /\ IF FORCE_POST_NOW \/ should_post_weekly_long(last_post, now)
       THEN LET picks == pick_stable_pools(pools)
                snaps == Snapshots_long(picks, now)
            IN  \/ /\ log' = log \o <<"select", "post failed">>
                   /\ pc' = "except"
                   /\ UNCHANGED <<current, last_post, FORCE_POST_NOW,
                                  state, disk>>
                \/ /\ current' = snaps
                   /\ last_post' = Num(now)
                   /\ FORCE_POST_NOW' = FALSE
                   /\ state' = [ts |-> Num(now), recs |-> snaps]
                   /\ \/ /\ disk' = save_state(state')
                         /\ log' = log \o <<"select",
                                IF picks = <<>> THEN "post no-match"
                                                ELSE "post picks", "saved">>
                         /\ pc' = "health"
                      \/ /\ disk' = disk
                         /\ log' = log \o <<"select", "post picks",
                                            "save failed">>
                         /\ pc' = "except"
       ELSE /\ pc' = "health"
            /\ UNCHANGED <<current, last_post, FORCE_POST_NOW, state, disk, log>>
    /\ UNCHANGED <<variant, pools, bad, now, cycles, PRICE_CACHE, universe,
                   result>>

\* long.py: the "Weekly or forced post" block
ScheduledPost_long ==
    /\ pc = "post" /\ variant = "long"
    /\ IF FORCE_POST_NOW \/ should_post_weekly_long(last_post, now)
       THEN LET picks == pick_stable_pools(pools)
                snaps == Snapshots_long(picks, now)
            IN  IF picks = <<>>
                THEN /\ \/ /\ log' = log \o <<"select", "post no-match">>
                           /\ pc' = "health"
                        \/ /\ log' = log \o <<"select", "post failed">>
                           /\ pc' = "except"
                     /\ UNCHANGED <<current, last_post, FORCE_POST_NOW,
                                    state, disk>>
                ELSE \/ /\ log' = log \o <<"select", "post failed">>
                        /\ pc' = "except"
                        /\ UNCHANGED <<current, last_post, FORCE_POST_NOW,
                                       state, disk>>
                     \/ /\ current' = snaps
                        /\ last_post' = Num(now)
                        /\ FORCE_POST_NOW' = FALSE
                        /\ state' = [ts |-> Num(now), recs |-> snaps]
                        /\ \/ /\ disk' = save_state(state')
                              /\ log' = log \o <<"select", "post picks", "saved">>
                              /\ pc' = "health"
                           \/ /\ disk' = disk
                              /\ log' = log \o <<"select", "post picks",
                                                 "save failed">>
                              /\ pc' = "except"
       ELSE /\ pc' = "health"
            /\ UNCHANGED <<current, last_post, FORCE_POST_NOW, state, disk, log>>
    /\ UNCHANGED <<variant, pools, bad, now, cycles, PRICE_CACHE, universe,
                   result>>

\* The mid.py block without its "FORCE_POST_NOW = False".
ScheduledPost_keeps_flag ==
    /\ pc = "post" /\ variant = "mid"
    /\ IF FORCE_POST_NOW \/ should_post_weekly_mid(last_post, now)
       THEN LET picks == pick_pools(pools)
                snaps == Snapshots_mid(picks, now)
            IN  \/ /\ log' = log \o <<"select", "post failed">>
                   /\ pc' = "except"
                   /\ UNCHANGED <<current, last_post, state, disk>>
                \/ /\ current' = snaps
                   /\ last_post' = Num(now)
                   /\ state' = [ts |-> Num(now), recs |-> snaps]
                   /\ \/ /\ disk' = save_state(state')
                         /\ log' = log \o <<"select", "post picks", "saved">>
                         /\ pc' = "health"
                      \/ /\ disk' = disk
                         /\ log' = log \o <<"select", "post picks", "save failed">>
                         /\ pc' = "except"
       ELSE /\ pc' = "health"
            /\ UNCHANGED <<current, last_post, state, disk, log>>
    /\ UNCHANGED <<variant, FORCE_POST_NOW, pools, bad, now, cycles,
                   PRICE_CACHE, universe, result>>

\* mid.py: the "Weekly / manual post" block
ScheduledPost_mid ==
    /\ pc = "post" /\ variant = "mid"
    /\ IF FORCE_POST_NOW \/ should_post_weekly_mid(last_post, now)
       THEN LET picks == pick_pools(pools)
                snaps == Snapshots_mid(picks, now)
            IN  \/ /\ log' = log \o <<"select", "post failed">>
                   /\ pc' = "except"
                   /\ UNCHANGED <<current, last_post, FORCE_POST_NOW, state,
                                  disk>>
                \/ /\ current' = snaps
                   /\ last_post' = Num(now)
                   /\ FORCE_POST_NOW' = FALSE
                   /\ state' = [ts |-> Num(now), recs |-> snaps]
                   /\ \/ /\ disk' = save_state(state')
                         /\ log' = log \o <<"select", "post picks", "saved">>
                         /\ pc' = "health"
                      \/ /\ disk' = disk
                         /\ log' = log \o <<"select", "post picks", "save failed">>
                         /\ pc' = "except"
       ELSE /\ pc' = "health"
            /\ UNCHANGED <<current, last_post, FORCE_POST_NOW, state, disk, log>>
    /\ UNCHANGED <<variant, pools, bad, now, cycles, PRICE_CACHE, universe,
                   result>>

\* short.py: the "Daily / forced post" block; nothing is written to the
\* state file
ScheduledPost_short ==
    /\ pc = "post" /\ variant = "short"
    /\ IF FORCE_POST_NOW \/ should_post_daily(last_post, now)
       THEN LET picks == pick_short_pools(pools)
                snaps == Snapshots_short(picks, now)
            IN  \/ /\ log' = log \o <<"select", "post failed">>
                   /\ pc' = "except"
                   /\ UNCHANGED <<current, last_post, FORCE_POST_NOW>>
                \/ /\ current' = snaps
                   /\ last_post' = Num(now)
                   /\ FORCE_POST_NOW' = FALSE
                   /\ log' = log \o <<"select", "post picks">>
                   /\ pc' = "health"
       ELSE /\ pc' = "health"
            /\ UNCHANGED <<current, last_post, FORCE_POST_NOW, log>>
    /\ UNCHANGED <<variant, state, disk, pools, bad, now, cycles, PRICE_CACHE,
                   universe, result>>

\* The pools of the active set that the fetched universe still lists
\* (the loop skips the others: "if pid not in idx: continue")
Tracked(cur, ps) == SelectSeq(cur, LAMBDA prev : InIdx(ps, prev.pool))

\* long.py: the loop over current_recs; refreshed and bad
Refreshed_long(cur, ps, t) ==
    LET tr == Tracked(cur, ps)
    IN  [i \in 1..Len(tr) |-> pool_snapshot_long(Idx(ps, tr[i].pool), t)]

Bad_long(cur, ps, t) ==
    LET tr == Tracked(cur, ps)
        rf == Refreshed_long(cur, ps, t)
        checked == [i \in 1..Len(tr) |->
                       [snap |-> rf[i], reasons |-> tank_reasons_long(tr[i], rf[i])]]
    IN  SelectSeq(checked, LAMBDA b : b.reasons # <<>>)

\* The long.py health check assigning the refreshed snapshots whether or not
\* a pool is bad.
HealthCheck_advances ==
    /\ pc = "health" /\ variant = "long"
    /\ bad' = Bad_long(current, pools, now)
    /\ current' = IF Refreshed_long(current, pools, now) # <<>>
                  THEN Refreshed_long(current, pools, now)
                  ELSE current
    /\ pc' = IF bad' # <<>> THEN "alert" ELSE "save"
    /\ UNCHANGED <<variant, FORCE_POST_NOW, state, last_post, pools, disk, now,
                   cycles, PRICE_CACHE, log, universe, result>>

\* long.py: "Constant health checks on last posted recs", and the branch
\* taken when no pool is bad: current_recs = refreshed or current_recs
HealthCheck_long ==
    /\ pc = "health" /\ variant = "long"
    /\ bad' = Bad_long(current, pools, now)
    /\ IF bad' # <<>>
       THEN /\ pc' = "alert"
            /\ UNCHANGED current
       ELSE /\ current' = IF Refreshed_long(current, pools, now) # <<>>
                          THEN Refreshed_long(current, pools, now)
                          ELSE current
            /\ pc' = "save"
    /\ UNCHANGED <<variant, FORCE_POST_NOW, state, last_post, pools, disk, now,
                   cycles, PRICE_CACHE, log, universe, result>>

\* mid.py: the loop over current; refreshed and bad
Refreshed_mid(cur, ps, t) ==
    LET tr == Tracked(cur, ps)
    IN  [i \in 1..Len(tr) |-> pool_snapshot_mid(Idx(ps, tr[i].pool), t)]

Bad_mid(cur, ps, t) ==
    LET tr == Tracked(cur, ps)
        rf == Refreshed_mid(cur, ps, t)
        checked == [i \in 1..Len(tr) |->
                       [snap |-> rf[i], reasons |-> tank_reasons_mid(tr[i], rf[i])]]
    IN  SelectSeq(checked, LAMBDA b : b.reasons # <<>>)

\* mid.py: "Continuous health checks"; when no pool is bad, current is left
\* as it is (refreshed is built and never read)
HealthCheck_mid ==
    /\ pc = "health" /\ variant = "mid"
    /\ bad' = Bad_mid(current, pools, now)
    /\ pc' = IF bad' # <<>> THEN "alert" ELSE "save"
    /\ UNCHANGED <<variant, FORCE_POST_NOW, state, last_post, current, pools,
                   disk, now, cycles, PRICE_CACHE, log, universe, result>>

Refreshed_short(cur, ps, t) ==
    LET tr == Tracked(cur, ps)
    IN  [i \in 1..Len(tr) |-> pool_snapshot_short(Idx(ps, tr[i].pool), t)]

\* short.py: the loop over current from its i-th tracked pool on, with
\* resp[i] the oracle's answer to the request made for that pool (if one is
\* made): the list bad and PRICE_CACHE after the loop
RECURSIVE HealthLoop_short(_, _, _, _, _, _, _)
HealthLoop_short(tr, ps, t, resp, i, cache, acc) ==
    IF i > Len(tr) THEN [bad |-> acc, cache |-> cache]
    ELSE LET prev == tr[i]
             cur == pool_snapshot_short(Idx(ps, prev.pool), t)
             risk == price_il_risk(prev.symbol, cache, t, resp[i])
             reasons ==
                 tank_reasons_short(prev, cur)
                 \o (IF risk.signal = "exit"
                     THEN <<"Price divergence (IL risk)">>
                     ELSE IF risk.signal = "warn"
                     THEN <<"Price divergence (watch)">>
                     ELSE <<>>)
         IN  HealthLoop_short(tr, ps, t, resp, i + 1, risk.cache,
                              IF reasons # <<>>
                              THEN Append(acc, [snap |-> cur, reasons |-> reasons])
                              ELSE acc)

\* short.py: "Continuous health checks", and the branch taken when no pool
\* is bad: current = refreshed or current (the try block ends there)
HealthCheck_short ==
    /\ pc = "health" /\ variant = "short"
    /\ LET tr == Tracked(current, pools)
           asked == {i \in 1..Len(tr) : Priced(tr[i].symbol)}
       IN  \E r \in [asked -> OracleResponses] :
              LET resp == [i \in 1..Len(tr) |->
                              IF i \in asked THEN r[i]
                              ELSE [status |-> "error", a |-> 0, b |-> 0]]
                  out == HealthLoop_short(tr, pools, now, resp, 1,
                                          PRICE_CACHE, <<>>)
              IN  /\ bad' = out.bad
                  /\ PRICE_CACHE' = out.cache
    /\ IF bad' # <<>>
       THEN /\ pc' = "alert"
            /\ UNCHANGED current
       ELSE /\ current' = IF Refreshed_short(current, pools, now) # <<>>
                          THEN Refreshed_short(current, pools, now)
                          ELSE current
            /\ pc' = "sleep"
    /\ UNCHANGED <<variant, FORCE_POST_NOW, state, last_post, pools, disk, now,
                   cycles, log, universe, result>>

\* "if bad: post_to_discord(<alert>)" (the same in the three programs)
Alert ==
    /\ pc = "alert"
    /\ \/ /\ log' = Append(log, "alert")
          /\ pc' = "refresh"
       \/ /\ log' = Append(log, "post failed")
          /\ pc' = "except"
    /\ UNCHANGED <<variant, FORCE_POST_NOW, state, last_post, current, pools,
                   bad, disk, now, cycles, PRICE_CACHE, universe, result>>

\* long.py: "Auto-refresh and re-post new stable picks immediately"
Refresh_long ==
    /\ pc = "refresh" /\ variant = "long"
    /\ LET picks == pick_stable_pools(pools)
       IN  IF picks # <<>>
           THEN \/ /\ current' = Snapshots_long(picks, now)
                   /\ log' = log \o <<"reselect", "post refreshed">>
                   /\ pc' = "save"
                \/ /\ log' = log \o <<"reselect", "post failed">>
                   /\ pc' = "except"
                   /\ UNCHANGED current
           ELSE /\ \/ /\ log' = log \o <<"reselect", "post no-match">>
                      /\ pc' = "save"
                   \/ /\ log' = log \o <<"reselect", "post failed">>
                      /\ pc' = "except"
                /\ UNCHANGED current
    /\ UNCHANGED <<variant, FORCE_POST_NOW, state, last_post, pools, bad, disk,
                   now, cycles, PRICE_CACHE, universe, result>>

\* The mid.py refresh with the state file written before the post: a failed
\* post leaves the new picks on disk.
Refresh_saves_first ==
    /\ pc = "refresh" /\ variant = "mid"
    /\ disk' = save_state([state EXCEPT
                              !.recs = Snapshots_mid(pick_pools(pools), now)])
    /\ \/ /\ current' = Snapshots_mid(pick_pools(pools), now)
          /\ log' = log \o <<"reselect", "post refreshed">>
          /\ pc' = "save"
       \/ /\ log' = log \o <<"reselect", "post failed">>
          /\ pc' = "except"
          /\ UNCHANGED current
    /\ UNCHANGED <<variant, FORCE_POST_NOW, state, last_post, pools, bad, now,
                   cycles, PRICE_CACHE, universe, result>>

\* mid.py: picks = pick_pools(pools); post; current = snapshots
\* The mid.py refresh recording its post as a scheduled one: the post
\* timestamp is set to the time of the refresh.
Refresh_resets_timer ==
    /\ pc = "refresh" /\ variant = "mid"
    /\ \/ /\ current' = Snapshots_mid(pick_pools(pools), now)
          /\ last_post' = Num(now)
          /\ log' = log \o <<"reselect", "post refreshed">>
          /\ pc' = "save"
       \/ /\ log' = log \o <<"reselect", "post failed">>
          /\ pc' = "except"
          /\ UNCHANGED <<current, last_post>>
    /\ UNCHANGED <<variant, FORCE_POST_NOW, state, pools, bad, disk,
                   now, cycles, PRICE_CACHE, universe, result>>

Refresh_mid ==
    /\ pc = "refresh" /\ variant = "mid"
    /\ \/ /\ current' = Snapshots_mid(pick_pools(pools), now)
          /\ log' = log \o <<"reselect", "post refreshed">>
          /\ pc' = "save"
       \/ /\ log' = log \o <<"reselect", "post failed">>
          /\ pc' = "except"
          /\ UNCHANGED current
    /\ UNCHANGED <<variant, FORCE_POST_NOW, state, last_post, pools, bad, disk,
                   now, cycles, PRICE_CACHE, universe, result>>

\* The short.py refresh without its "current = [...]": the picks are posted
\* and the active set stays.
Refresh_keeps_current ==
    /\ pc = "refresh" /\ variant = "short"
    /\ \/ /\ log' = log \o <<"reselect", "post refreshed">>
          /\ pc' = "sleep"
       \/ /\ log' = log \o <<"reselect", "post failed">>
          /\ pc' = "except"
    /\ UNCHANGED <<variant, FORCE_POST_NOW, state, last_post, current, pools,
                   bad, disk, now, cycles, PRICE_CACHE, universe, result>>

\* short.py: picks = pick_short_pools(pools); post; current = snapshots
Refresh_short ==
    /\ pc = "refresh" /\ variant = "short"
    /\ \/ /\ current' = Snapshots_short(pick_short_pools(pools), now)
          /\ log' = log \o <<"reselect", "post refreshed">>
          /\ pc' = "sleep"
       \/ /\ log' = log \o <<"reselect", "post failed">>
          /\ pc' = "except"
          /\ UNCHANGED current
    /\ UNCHANGED <<variant, FORCE_POST_NOW, state, last_post, pools, bad, disk,
                   now, cycles, PRICE_CACHE, universe, result>>

\* long.py and mid.py, end of the try block:
\* state["current_recs"] = current; save_state(state)
Save ==
    /\ pc = "save"
    /\ state' = [state EXCEPT !.recs = current]
    /\ \/ /\ disk' = save_state(state')
          /\ log' = Append(log, "saved")
          /\ pc' = "sleep"
       \/ /\ disk' = disk
          /\ log' = Append(log, "save failed")
          /\ pc' = "except"
    /\ UNCHANGED <<variant, FORCE_POST_NOW, last_post, current, pools, bad, now,
                   cycles, PRICE_CACHE, universe, result>>

\* The except block without the inner try: a failed error notice leaves
\* main with an uncaught exception.
Except_unguarded ==
    /\ pc = "except"
    /\ \/ /\ log' = Append(log, "error notice")
          /\ pc' = "sleep"
       \/ /\ log' = Append(log, "error notice failed")
          /\ pc' = "crashed"
    /\ UNCHANGED <<variant, FORCE_POST_NOW, state, last_post, current, pools,
                   bad, disk, now, cycles, PRICE_CACHE, universe, result>>

\* except Exception: try: post_to_discord(<error>) except Exception: pass
Except ==
    /\ pc = "except"
    /\ \/ log' = Append(log, "error notice")
       \/ log' = Append(log, "error notice failed")
    /\ pc' = "sleep"
    /\ UNCHANGED <<variant, FORCE_POST_NOW, state, last_post, current, pools,
                   bad, disk, now, cycles, PRICE_CACHE, universe, result>>

\* time.sleep(SCAN_INTERVAL_MIN * 60), then the next iteration; the locals
\* pools, idx and bad of the finished iteration are not read again, and the
\* record of what the iteration did starts anew
Sleep ==
    /\ pc = "sleep"
    /\ cycles < MaxCycles
    /\ \E d \in SleepChoices(variant) : now' = now + d
    /\ pools' = <<>>
    /\ bad' = <<>>
    /\ log' = <<>>
    /\ pc' = "fetch"
    /\ UNCHANGED <<variant, FORCE_POST_NOW, state, last_post, current, disk,
                   cycles, PRICE_CACHE, universe, result>>

Next ==
    \/ Load
    \/ Fetch
    \/ ScheduledPost_long
    \/ ScheduledPost_mid
    \/ ScheduledPost_short
    \/ HealthCheck_long
    \/ HealthCheck_mid
    \/ HealthCheck_short
    \/ Alert
    \/ Refresh_long
    \/ Refresh_mid
    \/ Refresh_short
    \/ Save
    \/ Except
    \/ Sleep

Spec == Init /\ [][Next]_vars

(***************************************************************************)
(* Claims about the selector (specification SpecPick)                      *)
(***************************************************************************)
PassesPrimary(p) == filter_pool_mid(p, PRIMARY_FILTERS)
PassesFallback(p) == filter_pool_mid(p, FALLBACK_FILTERS)

\* C1: in primary/fallback mode no pool appears twice in the returned list,
\* also when a pool passes both the primary and the fallback policy.
C1_NoPoolTwice ==
    (pc = "selected" /\ variant = "mid") =>
        \A i, j \in 1..Len(result) :
            i # j => result[i].pool # result[j].pool

\* C2: in primary/fallback mode the length of the result is
\* min(N, number of distinct pools passing the primary or the fallback
\* policy); one primary pool and three fallback-only pools give 4 picks.
C2_LengthIsDistinctPassing ==
    (pc = "selected" /\ variant = "mid") =>
        Len(result) =
            Min(RECOMMEND_N,
                Cardinality({i \in 1..Len(universe) :
                                PassesPrimary(universe[i])
                                \/ PassesFallback(universe[i])}))

\* C2, the scenario of the specification: one pool meeting the primary
\* policy, three meeting only the fallback policy, N = 5: exactly 4 picks.
C2_OnePrimaryThreeFallback ==
    (/\ pc = "selected" /\ variant = "mid"
     /\ Cardinality({i \in 1..Len(universe) : PassesPrimary(universe[i])}) = 1
     /\ Cardinality({i \in 1..Len(universe) :
                        PassesFallback(universe[i])
                        /\ ~PassesPrimary(universe[i])}) = 3)
        => Len(result) = 4

(***************************************************************************)
(* Claims about the monitor loop (specification Spec)                      *)
(***************************************************************************)
InLog(e) == \E i \in 1..Len(log) : log[i] = e
LastLog == IF log = <<>> THEN "" ELSE log[Len(log)]

\* The log l records a failure, which takes the cycle to its except block.
Failed(l) ==
    \E i \in 1..Len(l) : l[i] \in {"fetch failed", "post failed", "save failed"}

CycleFailed == Failed(log)

\* The cycle reached the sleep at the end of the try block.
CycleCompleted == pc = "sleep" /\ log # <<>> /\ ~CycleFailed

\* The selector of the running variant on the fetched universe, and the
\* snapshots of its picks.
FreshPicks ==
    CASE variant = "long" -> pick_stable_pools(pools)
      [] variant = "mid" -> pick_pools(pools)
      [] variant = "short" -> pick_short_pools(pools)

FreshSnapshots ==
    CASE variant = "long" -> Snapshots_long(FreshPicks, now)
      [] variant = "mid" -> Snapshots_mid(FreshPicks, now)
      [] variant = "short" -> Snapshots_short(FreshPicks, now)

\* The snapshot of the current values of the pool with identifier pid.
CurrentSnapshot(pid) ==
    CASE variant = "long" -> pool_snapshot_long(Idx(pools, pid), now)
      [] variant = "mid" -> pool_snapshot_mid(Idx(pools, pid), now)
      [] variant = "short" -> pool_snapshot_short(Idx(pools, pid), now)

IntervalSec ==
    CASE variant = "long" -> WEEKLY_INTERVAL_DAYS_long * 86400
      [] variant = "mid" -> WEEKLY_INTERVAL_DAYS_mid * 86400
      [] variant = "short" -> DAILY_INTERVAL_HOURS * 3600

C4_BaselinesRefreshed ==
    (CycleCompleted /\ bad = <<>>) =>
        \A i \in 1..Len(current) :
            InIdx(pools, current[i].pool) =>
                current[i] = CurrentSnapshot(current[i].pool)

\* C5: in a cycle whose fetch succeeded a scheduled selection is attempted
\* if and only if the forced flag is set, or there is no post timestamp, or
\* the time since the last post is at least the interval.
C5_CadenceGate ==
    [][ pc = "post" =>
          ((\E i \in 1..Len(log') : log'[i] = "select")
             <=> (\/ FORCE_POST_NOW
                  \/ last_post = None
                  \/ (last_post # None /\ now - last_post.v >= IntervalSec))) ]_vars

C5_Witness ==
    /\ pc = "health"
    /\ InLog("select")
    /\ cycles = 2
    /\ now = IntervalSec
    /\ disk.k = "ok" /\ disk.ts = Num(now)

C7_FailureKeepsDisk ==
    [][ (\/ pc \in {"fetch", "alert", "refresh", "except"}
         \/ (pc' = "except"
               /\ log'[Len(log')] \in {"fetch failed", "post failed"}))
          => disk' = disk ]_vars

C7_Witness ==
    /\ pc = "sleep"
    /\ InLog("reselect") /\ InLog("post failed")
    /\ disk.k = "ok"
    /\ disk.recs # <<>>
    /\ disk.ts # None

\* The positions of main inside the try block and its except block.
InCycle == {"fetch", "post", "health", "alert", "refresh", "save", "except"}

\* The interpreter has a next statement of main to execute: the process has
\* not ended with an uncaught exception and the cycle bound of the model is
\* not used up.  In these states, and in no others, Next is enabled.
Running ==
    \/ pc \in InCycle \cup {"load"}
    \/ pc = "sleep" /\ cycles < MaxCycles

\* A step of the running process.  Every step of Next moves pc, and under
\* Spec every step that moves pc is a step of Next.
Proceed == Running /\ pc' \in InCycle \cup {"load", "sleep", "crashed"}

\* The process keeps taking steps: a running interpreter executes the next
\* statement of main, and every sleep returns.
LiveSpec == Spec /\ WF_pc(Proceed)

\* C8: no failure inside a cycle terminates the loop: no step of a cycle
\* ends the process, a failed cycle goes on to attempt the error notice and
\* then, whether or not the notice was delivered, reaches the sleep, and
\* the sleep is followed by the fetch of the next cycle.
C8_LoopSurvivesFailures ==
    /\ [][ (pc \in InCycle) => (pc' \in (InCycle \cup {"sleep"})) ]_vars
    /\ [][ (pc \in InCycle /\ Failed(log')) => (pc' \in {"except", "sleep"}) ]_vars
    /\ [](CycleFailed =>
            (pc = "except"
               \/ (pc = "sleep"
                     /\ LastLog \in {"error notice", "error notice failed"})))
    /\ (pc \in InCycle ~> pc = "sleep")
    /\ ((pc = "sleep" /\ cycles < MaxCycles) ~> pc = "fetch")

C8_Witness ==
    /\ pc = "sleep"
    /\ cycles < MaxCycles
    /\ InLog("save failed")
    /\ LastLog = "error notice failed"

\* C9: after every completed cycle the state file holds the post timestamp
\* and the active set of the process, so that a restart loads them.
C9_StatePersisted ==
    CycleCompleted =>
        /\ ~LoadRaises(disk)
        /\ load_state(disk) = [ts |-> last_post, recs |-> current]

\* C10: a state file that is missing, unreadable or malformed makes the
\* process start fresh, with no post timestamp and an empty active set, and
\* it enters the cycle loop.
C10_LoadFailureStartsFresh ==
    (pc # "load" /\ cycles = 0 /\ disk.k \in {"missing", "malformed"}) =>
        /\ pc = "fetch"
        /\ last_post = None
        /\ current = <<>>

\* The log l holds the event e.
Has(l, e) == \E i \in 1..Len(l) : l[i] = e

\* C11: a cycle whose fetch failed or returned an empty list posts no
\* selection and no alert, and leaves the post timestamp, the forced flag
\* and the active set as they were.
C11_EmptyOrFailedFetchSkipsCycle ==
    [][ ((pc \in InCycle /\ pools' = <<>>) =>
            /\ UNCHANGED <<last_post, FORCE_POST_NOW, current>>
            /\ ~Has(log', "post picks")
            /\ ~Has(log', "alert")
            /\ ~Has(log', "post refreshed")) ]_vars

\* C12: in every state of the monitor loop the active set holds at most
\* RECOMMEND_N snapshots.
C12_ActiveSetAtMostN == Len(current) <= RECOMMEND_N

C12_Witness ==
    /\ pc = "sleep"
    /\ cycles = 2
    /\ Len(pools) > RECOMMEND_N
    /\ Len(current) = RECOMMEND_N
    /\ ~CycleFailed

(***************************************************************************)
(* Further claims about the selector (specification SpecPick)              *)
(***************************************************************************)
\* The policies the running variant is configured with.
Policies ==
    CASE variant = "long" -> {STABLE_FILTERS}
      [] variant = "mid" -> {PRIMARY_FILTERS, FALLBACK_FILTERS}
      [] variant = "short" -> {SHORT_FILTERS}

\* The category the running variant gives a symbol.
Category(symbol) ==
    CASE variant = "long" -> classify_long(symbol)
      [] variant = "mid" -> classify_mid(symbol)
      [] variant = "short" -> classify_short(symbol)

\* Pool p meets the conditions of the policy other than the IL ceiling.
MeetsButIL(p, rules) ==
    /\ p.chain \in CHAINS
    /\ Category(p.symbol) \in rules.allowed_types
    /\ num(p.tvlUsd) >= rules.min_tvl
    /\ num(p.volumeUsd7d) >= rules.min_vol7d
    /\ num(p.apy) <= rules.max_apy

\* Pool p meets the full filter predicate of the policy.
Meets(p, rules) ==
    /\ MeetsButIL(p, rules)
    /\ p.il7d = None \/ p.il7d.v <= rules.max_il7d

\* C13: select returns at most RECOMMEND_N pools, each of which meets the
\* full filter predicate of a configured policy; and a pool without an IL
\* estimate that meets the other conditions of a policy is left out only
\* when the result is full.
C13_ResultWithinPolicy ==
    pc = "selected" =>
        /\ Len(result) <= RECOMMEND_N
        /\ \A i \in 1..Len(result) :
              \E rules \in Policies : Meets(result[i], rules)
        /\ Len(result) < RECOMMEND_N =>
              \A k \in 1..Len(universe) :
                  (universe[k].il7d = None
                     /\ \E rules \in Policies : MeetsButIL(universe[k], rules))
                  => \E i \in 1..Len(result) : result[i] = universe[k]

C13_Witness ==
    /\ pc = "selected"
    /\ Len(result) >= 2
    /\ \E i \in 1..Len(result) : result[i].il7d = None
    /\ \E k \in 1..Len(universe) :
          /\ universe[k].il7d # None
          /\ \E rules \in Policies : MeetsButIL(universe[k], rules)
          /\ \A rules \in Policies : ~Meets(universe[k], rules)

\* The score the running variant ranks a pool by.
ScoreOf(p) ==
    CASE variant = "long" -> score_stable(p)
      [] variant = "mid" -> score(p)
      [] variant = "short" -> score_short(p)

\* The entries lo..hi of the result are in descending score order.
Descending(lo, hi) ==
    \A i, j \in lo..hi : i < j => ScoreOf(result[i]) >= ScoreOf(result[j])

\* How many pools of the universe pass the primary policy, at most
\* RECOMMEND_N: the length of the primary part of a mid result.
PrimaryLen ==
    Min(RECOMMEND_N,
        Cardinality({k \in 1..Len(universe) : PassesPrimary(universe[k])}))

\* C14 (as stated): the result is in descending score order over its whole
\* length, in every variant.
C14_DescendingThroughout ==
    pc = "selected" => Descending(1, Len(result))

\* C14 (amended): a single-policy result is in descending score order over
\* its whole length; a primary/fallback result is the primary pools in
\* descending score order followed by the fallback picks in descending
\* score order.
C14_DescendingPerPolicy ==
    pc = "selected" =>
        IF variant = "mid"
        THEN /\ PrimaryLen <= Len(result)
             /\ \A i \in 1..PrimaryLen : PassesPrimary(result[i])
             /\ Descending(1, PrimaryLen)
             /\ Descending(PrimaryLen + 1, Len(result))
        ELSE Descending(1, Len(result))

C14_Witness ==
    /\ pc = "selected"
    /\ variant = "mid"
    /\ PrimaryLen = 2
    /\ Len(result) = 5
    /\ ScoreOf(result[1]) > ScoreOf(result[2])
    /\ ScoreOf(result[3]) > ScoreOf(result[2])
    /\ ScoreOf(result[3]) > ScoreOf(result[4])

(***************************************************************************)
(* Claims about the detector (specification SpecCheck)                     *)
(***************************************************************************)
\* The tank rules of the running variant.
MaxIl ==
    CASE variant = "long" -> TANK_RULES_long.max_il7d
      [] variant = "mid" -> TANK_RULES_mid.max_il7d
      [] variant = "short" -> TANK_RULES_short.max_il7d

MaxTvlDropPct ==
    CASE variant = "long" -> TANK_RULES_long.max_tvl_drop_pct
      [] variant = "mid" -> TANK_RULES_mid.max_tvl_drop_pct
      [] variant = "short" -> TANK_RULES_short.max_tvl_drop_pct

\* Snapshot s is caught by a rule that looks at the current values alone:
\* the IL ceiling, or the TVL floor of the stable variant.
OverIlCeiling(s) == s.il7d # None /\ s.il7d.v > MaxIl
UnderTvlFloor(s) ==
    variant = "long" /\ s.tvlUsd > 0
        /\ s.tvlUsd < TANK_RULES_long.min_tvl_absolute

\* C15 (as stated): a snapshot compared with itself gives no reason.
C15_NoReasonOnIdentical ==
    (pc = "checked" /\ universe[1] = universe[2]) => result = <<>>

\* C15 (amended): a snapshot compared with itself gives no relative-drop
\* reason; it gives exactly the reasons of the rules on current values: the
\* TVL floor (stable variant) and the IL ceiling.
C15_OnlyAbsoluteReasonsOnIdentical ==
    (pc = "checked" /\ universe[1] = universe[2]) =>
        result = (IF UnderTvlFloor(universe[2]) THEN <<"TVL low">> ELSE <<>>)
                 \o (IF OverIlCeiling(universe[2]) THEN <<"il7d">> ELSE <<>>)

C15_Witness ==
    /\ pc = "checked"
    /\ universe[1] = universe[2]
    /\ universe[1].tvlUsd = 100
    /\ universe[1].il7d = Num(5)
    /\ result = <<>>

HasReason(r) == \E i \in 1..Len(result) : result[i] = r

\* C16: the TVL-drop reason is reported exactly when the earlier TVL is
\* positive and the current TVL is at most (100 - threshold) percent of it;
\* the boundary is inclusive: under 20 percent, from 100 the values 75, 79
\* and 80 trigger and 81 does not; an earlier TVL of zero never triggers.
C16_TvlDropInclusive ==
    pc = "checked" =>
        LET prev == universe[1].tvlUsd
            cur == universe[2].tvlUsd
        IN  /\ HasReason("TVL drop") <=>
                (prev > 0 /\ cur * 100 <= (100 - MaxTvlDropPct) * prev)
            /\ prev = 0 => ~HasReason("TVL drop")
            /\ (MaxTvlDropPct = 20 /\ prev = 100) =>
                /\ cur \in {75, 79, 80} => HasReason("TVL drop")
                /\ cur = 81 => ~HasReason("TVL drop")

C16_Witness ==
    /\ pc = "checked"
    /\ variant = "short"
    /\ universe[1].tvlUsd = 100
    /\ universe[2].tvlUsd = 80
    /\ HasReason("TVL drop")

(***************************************************************************)
(* Further claims about the monitor loop (specification Spec)              *)
(***************************************************************************)
\* The baseline prev of the active set has its pool in the fetched universe
\* with a TVL under the floor of the stable variant, its 7-day volume and
\* net yield as in the baseline, and no IL estimate over the ceiling.
CrashedUnderFloor(prev) ==
    /\ InIdx(pools, prev.pool)
    /\ LET cs == CurrentSnapshot(prev.pool)
       IN  /\ cs.tvlUsd > 0
           /\ cs.tvlUsd < TANK_RULES_long.min_tvl_absolute
           /\ cs.volumeUsd7d = prev.volumeUsd7d
           /\ cs.netApy = prev.netApy
           /\ (cs.il7d = None \/ cs.il7d.v <= TANK_RULES_long.max_il7d)

\* The list b of degraded pools holds the current snapshot of prev's pool
\* with the reasons rs.
Reported(b, prev, rs) ==
    \E j \in 1..Len(b) :
        b[j].snap = CurrentSnapshot(prev.pool) /\ b[j].reasons = rs

\* C17 (as stated): in the stable variant a pool of the active set whose TVL
\* fell under the floor, with volume and net yield flat, is reported with
\* the single reason "TVL low".
C17_ExactlyOneReason ==
    (variant = "long" /\ pc = "alert") =>
        \A i \in 1..Len(current) :
            CrashedUnderFloor(current[i]) =>
                Reported(bad, current[i], <<"TVL low">>)

\* C17 (amended): in the stable variant the health check reports such a pool
\* with the reason "TVL low", followed by the reason "TVL drop" when the fall
\* from the baseline is at least max_tvl_drop_pct percent, and with no other
\* reason; the cycle goes on to the alert and, unless posting the alert
\* fails, to the re-selection.
C17_TvlLowThenReselect ==
    [][ /\ (pc = "health" /\ variant = "long") =>
              \A i \in 1..Len(current) :
                  CrashedUnderFloor(current[i]) =>
                      /\ pc' = "alert"
                      /\ Reported(bad', current[i],
                            <<"TVL low">>
                            \o (IF CurrentSnapshot(current[i].pool).tvlUsd * 100
                                    <= (100 - TANK_RULES_long.max_tvl_drop_pct)
                                        * current[i].tvlUsd
                                THEN <<"TVL drop">> ELSE <<>>))
        /\ (pc = "alert" /\ variant = "long") =>
              \/ pc' = "refresh" /\ log' = Append(log, "alert")
              \/ pc' = "except" /\ log' = Append(log, "post failed")
        /\ (pc = "refresh" /\ variant = "long") =>
              (Has(log', "alert") /\ Has(log', "reselect"))
      ]_vars

\* A completed cycle of the stable variant in which the pool was reported
\* with the single reason "TVL low" and the re-selection ran.
C17_Witness ==
    /\ variant = "long"
    /\ CycleCompleted
    /\ \E j \in 1..Len(bad) :
          bad[j].reasons = <<"TVL low">> /\ bad[j].snap.tvlUsd = 19
    /\ InLog("alert") /\ InLog("reselect")

\* The same with a fall from 100 to 10: both reasons.
C17_WitnessCrash ==
    /\ variant = "long"
    /\ CycleCompleted
    /\ \E j \in 1..Len(bad) :
          bad[j].reasons = <<"TVL low", "TVL drop">> /\ bad[j].snap.tvlUsd = 10
    /\ InLog("alert") /\ InLog("reselect")

\* C18: a tracked pool absent from the fetched universe gets no alert reason,
\* does not make the cycle fail, and is not part of the active set after the
\* cycle, also when every tracked pool is absent: the health check reports
\* only pools of the fetched universe and does not take the cycle to its
\* except block, and after a completed cycle every snapshot of the active
\* set has its pool in the fetched universe.
C18_AbsentPoolDropped ==
    /\ (pc \in {"alert", "refresh", "save"}) =>
          \A j \in 1..Len(bad) : InIdx(pools, bad[j].snap.pool)
    /\ CycleCompleted =>
          \A i \in 1..Len(current) : InIdx(pools, current[i].pool)

(***************************************************************************)
(* Claim about startup (specification SpecStartup)                         *)
(***************************************************************************)
\* C19: the loop is entered only with a consistent configuration: a
\* recommendation count above zero and a non-empty set of allowed
\* categories.
C19_InconsistentConfigRejected ==
    pc = "loop" => (universe.n > 0 /\ universe.allowed_types # {})

(***************************************************************************)
(* Claim about the classifier (specification SpecClassify)                 *)
(***************************************************************************)
\* The stable hints of the running variant.
StableHints ==
    CASE variant = "long" -> STABLE_HINTS_long
      [] variant = "mid" -> STABLE_HINTS_mid
      [] variant = "short" -> STABLE_HINTS_short

\* classify of variant v.
ClassifyOf(v, symbol) ==
    CASE v = "long" -> classify_long(symbol)
      [] v = "mid" -> classify_mid(symbol)
      [] v = "short" -> classify_short(symbol)

\* The number of entries of hints that occur in the written symbol.
HintsIn(symbol, hints) ==
    Cardinality({i \in 1..Len(hints) :
        \E k \in 1..Len(symbol) :
            k + Len(hints[i]) - 1 <= Len(symbol)
            /\ \A m \in 1..Len(hints[i]) : symbol[k + m - 1] = hints[i][m]})

\* C20: in every variant a symbol with at least two distinct stable hints
\* and no base hint classifies as stable-stable, and two tokens classify the
\* same whichever of the separators - / space _ + joins them.
C20_StableStableAnySeparator ==
    pc = "classified" =>
        /\ (HintsIn(universe, StableHints) >= 2 /\ HintsIn(universe, BASE_HINTS) = 0)
              => result = "stable-stable"
        /\ \A a \in ClassifyTokens, b \in ClassifyTokens, j \in SEPARATORS :
              universe = a \o <<j>> \o b =>
                  result = ClassifyOf(variant, a \o Dash \o b)

\* The same claim for the stable and the mixed variant alone.
StableStableInLongAndMid ==
    variant # "short" => C20_StableStableAnySeparator

(***************************************************************************)
(* Claim about anomalous records (specification SpecAnomaly)               *)
(***************************************************************************)
\* C21: a record with a missing or non-numeric TVL, volume, yield or IL
\* field, or an empty symbol, makes neither the selection filter nor the
\* health check raise.
C21_AnomalyNeverRaises ==
    pc = "handled" => (result.filter # "raised" /\ result.health # "raised")

\* The same for records whose IL field is missing or a number.
NumericIlNeverRaises ==
    (pc = "handled" /\ universe.il7d # Text) =>
        (result.filter # "raised" /\ result.health # "raised")

\* C22: the health check, the alert and the re-selection that follows it
\* leave the post timestamp and the forced flag as they were, and the save
\* at the end of the cycle writes the timestamp the state already held: in a
\* cycle that replaced the active set after an alert, both have the values
\* they had before the health check.
C22_RefreshKeepsCadence ==
    [][ /\ (pc \in {"health", "alert", "refresh", "save"}) =>
              UNCHANGED <<last_post, FORCE_POST_NOW>>
        /\ (pc \in {"health", "alert", "refresh", "save"}) =>
              state'.ts = state.ts
      ]_vars

\* A completed cycle that replaced the active set after an alert while the
\* post timestamp stayed at an earlier time.
C22_Witness ==
    /\ CycleCompleted
    /\ bad # <<>>
    /\ InLog("alert") /\ InLog("post refreshed")
    /\ current = FreshSnapshots /\ current # <<>>
    /\ last_post # None /\ last_post.v < now
    /\ ~FORCE_POST_NOW

(***************************************************************************)
(* Claim about the universe fetch (specification SpecFetch)                *)
(***************************************************************************)
\* C23: a fetch makes at most 3 requests; it returns on the first request
\* that is answered, every failed request before it being followed by a
\* wait; after the third failure in a row it raises.
C23_BoundedRetry ==
    /\ result.attempts <= 3
    /\ pc = "returned" =>
          /\ universe[result.attempts] = "ok"
          /\ \A k \in 1..(result.attempts - 1) : universe[k] # "ok"
    /\ pc = "raised" =>
          /\ result.attempts = 3
          /\ \A k \in 1..3 : universe[k] # "ok"
    /\ pc \in {"returned", "raised"} =>
          /\ result.sleeps = result.attempts - 1
          /\ result.slept >= 2 * result.sleeps

\* The fetch raised after three failed requests and two waits.
C23_Witness ==
    /\ pc = "raised"
    /\ result.attempts = 3
    /\ result.sleeps = 2
    /\ universe[4] = "ok"

\* The fetch returned the answer to its third request.
C23_WitnessThird ==
    pc = "returned" /\ result.attempts = 3 /\ result.slept > 0

(***************************************************************************)
(* Claim about the oracle cache (specification SpecOracle)                 *)
(***************************************************************************)
\* C24: any two requests sent to the oracle for the pair are at least one
\* time-to-live apart, whatever the oracle answered.
C24_OneRequestPerWindow ==
    \A i, j \in 1..Len(result.requests) :
        i < j => result.requests[j] - result.requests[i] >= PRICE_CACHE_TTL

\* The same for requests that follow an answered request: after a request
\* the oracle answered, no other is sent within the time-to-live.
RequestsAfterAnswerSpaced ==
    \A key \in DOMAIN result.cache :
        \A j \in 1..Len(result.requests) :
            result.requests[j] > result.cache[key].ts =>
                result.requests[j] - result.cache[key].ts >= PRICE_CACHE_TTL

(***************************************************************************)
(* Claim about persistence (specification SpecSave)                        *)
(***************************************************************************)
\* C25: at every step of save_state, and after a kill at any of them, the
\* state file holds the complete previous state or the complete new state.
C25_SaveAtomic ==
    /\ result.file \in {result.old, save_state(universe)}
    /\ pc = "saved" => result.file = save_state(universe)

\* Killed while the temporary file was half written: the state file is the
\* previous one.
C25_Witness ==
    /\ pc = "killed"
    /\ result.tmp.k = "torn" /\ result.tmp.n = 1
    /\ result.old.k = "ok"
    /\ result.file = result.old
    /\ result.file # save_state(universe)

\* Killed after the temporary file was written and before the replace.
C25_WitnessBeforeReplace ==
    /\ pc = "killed"
    /\ result.tmp = save_state(universe)
    /\ result.file = result.old
    /\ result.file # result.tmp

(***************************************************************************)
(* Claims about baselines and alerts (specification Spec)                  *)
(***************************************************************************)
\* tank_reasons of the running variant.
TankReasons(prev, cur) ==
    CASE variant = "long" -> tank_reasons_long(prev, cur)
      [] variant = "mid" -> tank_reasons_mid(prev, cur)
      [] variant = "short" -> tank_reasons_short(prev, cur)

\* The pool of the baseline prev is in the fetched universe and its current
\* values breach a tank rule relative to prev.
BreachesRule(prev) ==
    /\ InIdx(pools, prev.pool)
    /\ TankReasons(prev, CurrentSnapshot(prev.pool)) # <<>>

\* C26: in a cycle whose fetch succeeded, the baseline of a tracked pool
\* whose current values breach a tank rule stays in the active set at every
\* step taken before an alert was delivered in that cycle.
C26_NoDegradationLost ==
    [][ (pc \in {"post", "health", "alert", "refresh", "save"}) =>
            \A i \in 1..Len(current) :
                BreachesRule(current[i]) =>
                    \/ Has(log, "alert")
                    \/ \E j \in 1..Len(current') : current'[j] = current[i]
      ]_vars

\* C26 (amended): the same for every step but the scheduled post, which
\* replaces the active set by the snapshots of its picks without a health
\* check; and the health check sends every cycle with such a pool to the
\* alert, so that after a failed alert the pool is found again.
C26_BaselineKeptUntilAlert ==
    [][ /\ (pc \in {"post", "health", "alert", "refresh", "save"}
               /\ ~Has(log', "post picks")) =>
              \A i \in 1..Len(current) :
                  BreachesRule(current[i]) =>
                      \/ Has(log, "alert")
                      \/ \E j \in 1..Len(current') : current'[j] = current[i]
        /\ (pc = "health" /\ \E i \in 1..Len(current) : BreachesRule(current[i])) =>
              (pc' = "alert" /\ bad' # <<>>)
      ]_vars

\* The alert for a degraded pool failed and the baseline is still in the
\* active set, in the second cycle in a row.
C26_Witness ==
    /\ pc = "except"
    /\ cycles = 2
    /\ bad # <<>>
    /\ LastLog = "post failed" /\ ~InLog("alert") /\ ~InLog("post picks")
    /\ \E i \in 1..Len(current) :
          BreachesRule(current[i]) /\ current[i].ts = 0

\* C27: after a completed cycle that delivered an alert, no snapshot of the
\* active set breaches a tank rule against the universe of that cycle, so
\* that a following cycle fetching the same universe finds no degraded pool
\* and sends no alert.
C27_NoRepeatedAlert ==
    (CycleCompleted /\ InLog("alert")) =>
        \A i \in 1..Len(current) : ~BreachesRule(current[i])

\* The same for the cycles whose re-selection found a pool.
NoRepeatAfterReplacement ==
    (CycleCompleted /\ InLog("alert") /\ FreshPicks # <<>>) =>
        \A i \in 1..Len(current) : ~BreachesRule(current[i])

\* ---------------------------------------------------------------------
\* Claims about the stable variant's empty selection

\* FORCE_POST_NOW or should_post_weekly(last_weekly_ts), as the loop of
\* long.py evaluates it at time t
DueLong(forced, last_ts, t) == forced \/ should_post_weekly_long(last_ts, t)

====
